---- MODULE Spec2Model ----
(***************************************************************************)
(* Thread-session orchestration of the Telegram bot: the ThreadSession     *)
(* flags (session.ts), the SessionManager registry (session.ts) and the    *)
(* message handlers that drive them (text handler, commands.ts,            *)
(* callback.ts).  Every await of the source that waits for I/O or a timer  *)
(* is a step boundary; the code between two such awaits is one action.     *)
(***************************************************************************)
EXTENDS Integers, Sequences, FiniteSets, TLC

\* ---------------------------------------------------------------- bounds
MaxSessionsReg == 4
MaxTime == 2
MaxBlocks == 4
MaxMessageLen == 4
Handlers == {1, 2}
Chats == {1, 2}

\* ------------------------------------------------------ program constants
MAX_CONCURRENT_SESSIONS == 1
SESSION_TIMEOUT_MS == 1
MAX_RETRIES == 1
MIN_TEXT_LENGTH == 20
POLL_ATTEMPTS == 3
THINKING_DEEP == 50000
THINKING_NORMAL == 10000

Sessions == 1..MaxSessionsReg
StartTime == SESSION_TIMEOUT_MS + 1

VARIABLES sess, reg, file, now, hd, stopFor, intFor, calls, cfg, stream, killed, env

vars == <<sess, reg, file, now, hd, stopFor, intFor, calls, cfg, stream, killed, env>>

\* ------------------------------------------------------- getThinkingLevel
\* A string is the sequence of its characters, over the letters a and b in
\* both cases.
Chars == {"a", "A", "b", "B"}

\* String.toLowerCase
toLowerCase(s) ==
  [i \in DOMAIN s |-> IF s[i] = "A" THEN "a" ELSE IF s[i] = "B" THEN "b" ELSE s[i]]

\* String.includes
includes(s, k) ==
  \E i \in 0..(Len(s) - Len(k)) : SubSeq(s, i + 1, i + Len(k)) = k

\* the trigger keywords of the configuration
THINKING_KEYWORDS == {<<"a", "b">>}

THINKING_DEEP_KEYWORDS == {<<"b", "b">>}

\* getThinkingLevel with the normal triggers checked first
getThinkingLevelNormalFirst(message) ==
  LET msgLower == toLowerCase(message)
  IN IF \E k \in THINKING_KEYWORDS : includes(msgLower, k) THEN THINKING_NORMAL
     ELSE IF \E k \in THINKING_DEEP_KEYWORDS : includes(msgLower, k) THEN THINKING_DEEP
     ELSE 0

getThinkingLevel(message) ==
  LET msgLower == toLowerCase(message)
  IN IF \E k \in THINKING_DEEP_KEYWORDS : includes(msgLower, k) THEN THINKING_DEEP
     ELSE IF \E k \in THINKING_KEYWORDS : includes(msgLower, k) THEN THINKING_NORMAL
     ELSE 0

\* ---------------------------------------------------------- ThreadSession
\* null is written 0: 0 is no session id, no Date and no chat
NoSession ==
  [chatId |-> 0, threadAnchorId |-> 0, title |-> "", createdAt |-> 0,
   sessionId |-> 0, lastActivity |-> 0,
   isQueryRunning |-> FALSE, abortController |-> 0, stopRequested |-> FALSE,
   isProcessing |-> FALSE, wasInterruptedByNewMessage |-> FALSE]

\* constructor: title || "Untitled", createdAt = new Date()
ThreadSession(chatId, threadAnchorId, title, t) ==
  [NoSession EXCEPT !.chatId = chatId, !.threadAnchorId = threadAnchorId,
                    !.title = IF title = "" THEN "Untitled" ELSE title,
                    !.createdAt = t]

isActive(r) == r.sessionId # 0

isRunning(r) == r.isQueryRunning \/ r.isProcessing

consumeInterruptFlagNoClear(r) ==
  [ret |-> r.wasInterruptedByNewMessage,
   r |-> [r EXCEPT !.wasInterruptedByNewMessage = FALSE]]

consumeInterruptFlag(r) ==
  [ret |-> r.wasInterruptedByNewMessage,
   r |-> [r EXCEPT !.wasInterruptedByNewMessage = FALSE,
                   !.stopRequested = IF r.wasInterruptedByNewMessage THEN FALSE ELSE @]]

markInterrupt(r) == [r EXCEPT !.wasInterruptedByNewMessage = TRUE]

clearStopRequested(r) == [r EXCEPT !.stopRequested = FALSE]

startProcessing(r) == [r EXCEPT !.isProcessing = TRUE]

stopProcessing(r) == [r EXCEPT !.isProcessing = FALSE]

\* stop(): ret is "stopped", "pending" or "false"; abort names the
\* controller that was signalled (0: none).
stop(r) ==
  IF r.isQueryRunning /\ r.abortController # 0
    THEN [ret |-> "stopped", r |-> [r EXCEPT !.stopRequested = TRUE],
          abort |-> r.abortController]
    ELSE IF r.isProcessing
      THEN [ret |-> "pending", r |-> [r EXCEPT !.stopRequested = TRUE], abort |-> 0]
      ELSE [ret |-> "false", r |-> r, abort |-> 0]

\* The synchronous head of sendMessageStreaming: the stream-entry check and
\* the creation of the abort controller (owned by the send of handler h).
sendEntry(r, h) ==
  IF r.stopRequested
    THEN [ok |-> FALSE, r |-> [r EXCEPT !.stopRequested = FALSE]]
    ELSE [ok |-> TRUE,
          r |-> [r EXCEPT !.abortController = h, !.isQueryRunning = TRUE,
                          !.stopRequested = FALSE]]

\* finally block of sendMessageStreaming
sendFinally(r) == [r EXCEPT !.isQueryRunning = FALSE, !.abortController = 0]

\* successful completion after the finally block
sendCompleted(r, t) == [r EXCEPT !.lastActivity = t]

\* session_id latch in the stream loop
latchSessionId(r, id) == IF r.sessionId = 0 /\ id # 0 THEN [r EXCEPT !.sessionId = id] ELSE r

kill(r) == [r EXCEPT !.sessionId = 0, !.lastActivity = 0]

\* the empty string as a session_id of a persisted record
EmptyString == -1

\* Date.toISOString() and new Date(string); [iso |-> 0] is the empty string
toISOString(t) == [iso |-> t]

parseDate(x) == x.iso

\* data.last_activity ? new Date(data.last_activity) : null
parseOptionalDate(x) == IF x = [iso |-> 0] THEN 0 ELSE parseDate(x)

\* toData at time t
toData(r, t) ==
  [session_id |-> IF r.sessionId # 0 THEN r.sessionId ELSE EmptyString,
   chat_id |-> r.chatId,
   thread_anchor_id |-> r.threadAnchorId,
   created_at |-> toISOString(r.createdAt),
   last_activity |-> IF r.lastActivity # 0 THEN toISOString(r.lastActivity)
                     ELSE toISOString(t),
   title |-> r.title]

\* fromData at time t: a persisted string is falsy only when it is empty
fromData(data, t) ==
  [ThreadSession(data.chat_id, data.thread_anchor_id, data.title, t) EXCEPT
     !.sessionId = IF data.session_id # EmptyString THEN data.session_id ELSE 0,
     !.createdAt = parseDate(data.created_at),
     !.lastActivity = parseOptionalDate(data.last_activity)]

\* ------------------------------------------- locals of sendMessageStreaming
\* The locals of one call (currentSegmentId, currentSegmentText,
\* lastTextUpdate, queryCompleted, askUserTriggered, responseParts), the
\* session fields the loop reads and writes (sessionId, stopRequested,
\* currentTool, lastTool, isQueryRunning, abortController, queryStarted,
\* lastActivity, lastError, lastErrorTime) and the events the status callback has received.
\* A text is written as the sequence of its pieces, each piece standing
\* for PieceLength characters; err is the pending Error.
NoError == <<>>

PieceLength == 11

\* String.length
length(text) == PieceLength * Len(text)

\* Array.join("") of an array of texts
RECURSIVE join(_)
join(parts) == IF parts = <<>> THEN <<>> ELSE Head(parts) \o join(Tail(parts))

\* the strings sendMessageStreaming returns in place of a response
WaitingForUser == <<"[Waiting for user selection]">>

NoResponse == <<"No response from Claude.">>

NoStream ==
  [pc |-> "idle", awaiting |-> FALSE, sessionId |-> 0, stopRequested |-> FALSE,
   currentSegmentId |-> 0, currentSegmentText |-> <<>>, lastTextUpdate |-> 0,
   queryCompleted |-> FALSE, askUserTriggered |-> FALSE, responseParts |-> <<>>,
   ret |-> <<>>, asked |-> <<>>, lastActivity |-> 0,
   currentTool |-> "", lastTool |-> "", err |-> NoError, blocks |-> 0,
   sink |-> <<>>, isQueryRunning |-> FALSE, abortController |-> 0,
   queryStarted |-> 0, lastError |-> NoError, lastErrorTime |-> 0]

\* statusCallback(type, text, segmentId)
statusCallback(r, type, text, len, segmentId) ==
  [r EXCEPT !.sink = Append(@, [type |-> type, text |-> text, len |-> len,
                                segmentId |-> segmentId]),
            !.awaiting = TRUE]

\* the texts of this model that contain "cancel" or "abort"
CancelTexts == {"/etc/abort.conf", "The operation was aborted"}

\* String(error).toLowerCase() includes "cancel" or "abort"; an Error is
\* written as the pieces of its message
isCleanupError(e) == \E i \in DOMAIN e : e[i] \in CancelTexts

\* the allow-list of path prefixes, and the temporary paths open to Read
ALLOWED_PATHS == {"/work/a.txt"}

TEMP_PATHS == {"/tmp/a.txt"}

isPathAllowed(path) == path \in ALLOWED_PATHS

\* [isSafe, reason] of the deny rules on the literal command string
checkCommandSafety(command) ==
  IF command = "rm -rf /" THEN <<FALSE, "Dangerous command">> ELSE <<TRUE, "">>

\* the safety checks on a tool_use block: the Error to throw and the text
\* of the tool event that announces it, or NoError
safetyError(b) ==
  IF b.name = "Bash" /\ ~checkCommandSafety(b.input)[1]
    THEN [err |-> <<"Unsafe command blocked: ", checkCommandSafety(b.input)[2]>>,
          text |-> "BLOCKED"]
  ELSE IF b.name = "Read" /\ b.input # ""
          /\ ~(b.name = "Read" /\ b.input \in TEMP_PATHS)
          /\ ~isPathAllowed(b.input)
    THEN [err |-> <<"File access blocked: ", b.input>>, text |-> "Access denied"]
  ELSE [err |-> NoError, text |-> ""]

\* "Segment ends when tool starts", without the advance of the counter
flushSegmentSameId(r) ==
  IF r.currentSegmentText # <<>>
    THEN [statusCallback(r, "segment_end", r.currentSegmentText,
                         length(r.currentSegmentText), r.currentSegmentId)
            EXCEPT !.currentSegmentText = <<>>]
    ELSE r

\* "Segment ends when tool starts"
flushSegment(r) ==
  IF r.currentSegmentText # <<>>
    THEN [statusCallback(r, "segment_end", r.currentSegmentText,
                         length(r.currentSegmentText), r.currentSegmentId)
            EXCEPT !.currentSegmentId = @ + 1, !.currentSegmentText = <<>>]
    ELSE r

\* the answers of checkPendingAskUserRequests from poll `attempt` on, up
\* to the first positive one; answers[n] is what poll n would answer
RECURSIVE pollFrom(_, _)
pollFrom(answers, attempt) ==
  IF attempt > POLL_ATTEMPTS THEN <<>>
  ELSE IF answers[attempt] THEN <<TRUE>>
  ELSE <<FALSE>> \o pollFrom(answers, attempt + 1)

\* for (let attempt = 0; attempt < 3; attempt++): the answers received
askUserPolls(answers) == pollFrom(answers, 1)

\* an accepted tool_use block: flush, currentTool and lastTool, the tool
\* event unless the tool is ask-user, and the poll for ask-user buttons
acceptTool(r, b, answers) ==
  LET r1 == flushSegment(r)
      r2 == [r1 EXCEPT !.currentTool = b.name, !.lastTool = b.name]
      asked == askUserPolls(answers)
  IN IF b.name = "mcp__ask-user"
       THEN [r2 EXCEPT !.askUserTriggered = @ \/ (\E n \in DOMAIN asked : asked[n]),
                       !.asked = asked, !.awaiting = TRUE]
       ELSE statusCallback(r2, "tool", b.name, 0, 0)

\* a text block whose text event carries the text of the block alone
textBlockDelta(r, text, elapsed) ==
  LET r1 == [r EXCEPT !.responseParts = Append(@, text),
                      !.currentSegmentText = @ \o text]
  IN IF elapsed /\ length(r1.currentSegmentText) > MIN_TEXT_LENGTH
       THEN [statusCallback(r1, "text", text, length(text), r1.currentSegmentId)
               EXCEPT !.lastTextUpdate = 1]
       ELSE r1

\* a text block; elapsed: now - lastTextUpdate > STREAMING_THROTTLE_MS
textBlock(r, text, elapsed) ==
  LET r1 == [r EXCEPT !.responseParts = Append(@, text),
                      !.currentSegmentText = @ \o text]
  IN IF elapsed /\ length(r1.currentSegmentText) > MIN_TEXT_LENGTH
       THEN [statusCallback(r1, "text", r1.currentSegmentText,
                            length(r1.currentSegmentText), r1.currentSegmentId)
               EXCEPT !.lastTextUpdate = 1]
       ELSE r1

\* the response of a send that leaves the text of its last block out
responseTextLastOmitted(r) ==
  IF join(SubSeq(r.responseParts, 1, Len(r.responseParts) - 1)) = <<>>
    THEN NoResponse
    ELSE join(SubSeq(r.responseParts, 1, Len(r.responseParts) - 1))

\* responseParts.join("") || "No response from Claude."
responseText(r) ==
  IF join(r.responseParts) = <<>> THEN NoResponse ELSE join(r.responseParts)

\* a completion that leaves lastActivity alone
completionKeepsActivity(r, t) == [r EXCEPT !.lastError = NoError, !.lastErrorTime = 0]

\* after the try statement: lastActivity, lastError and lastErrorTime
completion(r, t) ==
  [r EXCEPT !.lastActivity = t, !.lastError = NoError, !.lastErrorTime = 0]

\* the catch block: swallow the error, or record and rethrow it
catchSuppresses(r) ==
  isCleanupError(r.err)
  /\ (r.queryCompleted \/ r.askUserTriggered \/ r.stopRequested)

\* --------------------------------------------------------- SessionManager
getSession(ss, rg, chatId, anchor) ==
  LET m == {s \in rg : ss[s].chatId = chatId /\ ss[s].threadAnchorId = anchor}
  IN IF m = {} THEN 0 ELSE CHOOSE s \in m : TRUE

getSessionsForChat(ss, rg, chatId) == {s \in rg : ss[s].chatId = chatId}

getRunningCount(ss, rg, chatId) ==
  Cardinality({s \in getSessionsForChat(ss, rg, chatId) : isRunning(ss[s])})

saveSessionsUnfiltered(ss, rg, t) ==
  [version |-> 1, sessions |-> {toData(ss[s], t) : s \in rg}]

saveSessions(ss, rg, t) ==
  [version |-> 1,
   sessions |-> {toData(ss[s], t) : s \in {x \in rg : ss[x].sessionId # 0}}]

\* loadSessions at time t: the registry read from file f; the session of
\* thread anchor a is held in slot a
loadSessions(f, t) ==
  LET recs == IF f.version # 1 THEN {} ELSE f.sessions
      at(s) == {d \in recs : d.thread_anchor_id = s}
  IN [sess |-> [s \in Sessions |->
                  IF at(s) = {} THEN NoSession ELSE fromData(CHOOSE d \in at(s) : TRUE, t)],
      reg |-> {s \in Sessions : at(s) # {}}]

\* getPersistedSessions: the records of the chat that carry a session id
getPersistedSessions(f, chatId) ==
  {d \in f.sessions : d.chat_id = chatId /\ d.session_id # EmptyString}

\* resumeSession without the look into the sessions in memory
resumeSessionFromDisk(ss, rg, f, chatId, anchor, t) ==
  LET recs == {d \in getPersistedSessions(f, chatId) : d.thread_anchor_id = anchor}
  IN IF recs = {}
       THEN [sess |-> ss, reg |-> rg, made |-> FALSE, ret |-> 0]
       ELSE [sess |-> [ss EXCEPT ![anchor] = fromData(CHOOSE d \in recs : TRUE, t)],
             reg |-> rg \cup {anchor}, made |-> TRUE, ret |-> anchor]

\* resumeSession at time t: made tells whether a session was reconstructed,
\* ret is the session returned (0: null)
resumeSession(ss, rg, f, chatId, anchor, t) ==
  LET found == getSession(ss, rg, chatId, anchor)
      recs == {d \in getPersistedSessions(f, chatId) : d.thread_anchor_id = anchor}
  IN IF found # 0 \/ recs = {}
       THEN [sess |-> ss, reg |-> rg, made |-> FALSE, ret |-> found]
       ELSE [sess |-> [ss EXCEPT ![anchor] = fromData(CHOOSE d \in recs : TRUE, t)],
             reg |-> rg \cup {anchor}, made |-> TRUE, ret |-> anchor]

\* the creation time in place of a missing lastActivity
activityTimeOrCreated(r) == IF r.lastActivity = 0 THEN r.createdAt ELSE r.lastActivity

\* lastActivity?.getTime() || 0
activityTime(r) == r.lastActivity

\* idleSessions[0] after the sort by lastActivity (0: none); among equal
\* times the lowest slot stands for the first in Map order.
newestIdle(ss, rg, chatId) ==
  LET idle == {s \in rg : ss[s].chatId = chatId /\ ~isRunning(ss[s])}
  IN IF idle = {} THEN 0
     ELSE CHOOSE s \in idle : \A t \in idle :
            \/ activityTime(ss[s]) > activityTime(ss[t])
            \/ (activityTime(ss[s]) = activityTime(ss[t]) /\ s <= t)

oldestIdle(ss, rg, chatId) ==
  LET idle == {s \in rg : ss[s].chatId = chatId /\ ~isRunning(ss[s])}
  IN IF idle = {} THEN 0
     ELSE CHOOSE s \in idle : \A t \in idle :
            \/ activityTime(ss[s]) < activityTime(ss[t])
            \/ (activityTime(ss[s]) = activityTime(ss[t]) /\ s <= t)

\* the session evicted by getOrCreateSession for a new key (0: none)
evictionVictim(ss, rg, chatId) ==
  IF getRunningCount(ss, rg, chatId) >= MAX_CONCURRENT_SESSIONS
    THEN oldestIdle(ss, rg, chatId)
    ELSE 0

\* slot of the next ThreadSession object to be constructed (0: pool used up)
freeSlot(ss, HD) ==
  LET free == {s \in cfg.slots :
                 /\ ss[s].chatId = 0
                 /\ \A x \in Sessions : ss[x].threadAnchorId # s
                 /\ \A h \in DOMAIN HD : HD[h].anchor # s}
  IN IF free = {} THEN 0 ELSE CHOOSE s \in free : \A t \in free : s <= t

\* removeSession that looks for the thread anchor in any chat
removeSessionAnyChat(ss, rg, f, chatId, anchor, t) ==
  LET m == {s \in rg : ss[s].threadAnchorId = anchor}
  IN IF m = {}
       THEN [ret |-> FALSE, reg |-> rg, file |-> f]
       ELSE [ret |-> TRUE, reg |-> rg \ m, file |-> saveSessions(ss, rg \ m, t)]

\* removeSession: sessions.delete(key), and saveSessions() when it deleted
removeSession(ss, rg, f, chatId, anchor, t) ==
  LET s == getSession(ss, rg, chatId, anchor)
  IN IF s = 0
       THEN [ret |-> FALSE, reg |-> rg, file |-> f]
       ELSE [ret |-> TRUE, reg |-> rg \ {s},
             file |-> saveSessions(ss, rg \ {s}, t)]

\* clearSessionsForChat over the sessions todo of the chat (a set);
\* count is the number of removals that returned true
RECURSIVE clearSessionsForChat(_, _, _, _, _, _)
clearSessionsForChat(ss, rg, f, chatId, todo, t) ==
  IF todo = {}
    THEN [count |-> 0, reg |-> rg, file |-> f]
    ELSE LET s == CHOOSE x \in todo : TRUE
             r == removeSession(ss, rg, f, chatId, ss[s].threadAnchorId, t)
             rest == clearSessionsForChat(ss, r.reg, r.file, chatId, todo \ {s}, t)
         IN [rest EXCEPT !.count = @ + (IF r.ret THEN 1 ELSE 0)]

\* getOrCreateSession with the ceiling check ahead of the lookup
getOrCreateSessionEvictFirst(ss, rg, chatId, anchor, title, n) ==
  LET found == IF anchor = 0 THEN 0 ELSE getSession(ss, rg, chatId, anchor)
      victim == evictionVictim(ss, rg, chatId)
      rg1 == IF victim = 0 THEN rg ELSE rg \ {victim}
  IN IF found # 0
       THEN [s |-> found, sess |-> ss, reg |-> rg1, saved |-> victim # 0,
             victim |-> victim, found |-> TRUE]
       ELSE [s |-> n,
             sess |-> IF n = 0 THEN ss
                      ELSE [ss EXCEPT ![n] = ThreadSession(chatId, IF anchor = 0 THEN n ELSE anchor,
                                                           title, now)],
             reg |-> rg1 \cup {n}, saved |-> TRUE, victim |-> victim, found |-> FALSE]

\* getOrCreateSession: s is the session returned; a new thread (anchor 0)
\* is anchored at the message that creates it, numbered like its slot.
getOrCreateSession(ss, rg, chatId, anchor, title, n) ==
  LET found == IF anchor = 0 THEN 0 ELSE getSession(ss, rg, chatId, anchor)
      victim == evictionVictim(ss, rg, chatId)
      rg1 == IF victim = 0 THEN rg ELSE rg \ {victim}
  IN IF found # 0
       THEN [s |-> found, sess |-> ss, reg |-> rg, saved |-> FALSE, victim |-> 0,
             found |-> TRUE]
       ELSE [s |-> n,
             sess |-> IF n = 0 THEN ss
                      ELSE [ss EXCEPT ![n] = ThreadSession(chatId, IF anchor = 0 THEN n ELSE anchor,
                                                           title, now)],
             reg |-> rg1 \cup {n}, saved |-> TRUE, victim |-> victim, found |-> FALSE]

\* cleanupInactiveSessions without the isRunning test
cleanupSetAnyState(ss, rg, t) ==
  {s \in rg : t - activityTime(ss[s]) > SESSION_TIMEOUT_MS}

\* sessions removed by cleanupInactiveSessions at time t
cleanupSet(ss, rg, t) ==
  {s \in rg : ~isRunning(ss[s]) /\ t - activityTime(ss[s]) > SESSION_TIMEOUT_MS}


\* ------------------------------------------------------- handler contexts
\* One record per handler invocation in flight; pc is the await at which
\* the invocation is suspended ("idle": no invocation).  stopSeen records
\* the stop() that reached the send of the invocation (it returned
\* "pending" while the send was still to come, or "stopped" while it was
\* streaming) by its origin: "message" (interrupt prefix), "explicit"
\* (/stop) or "button" (callback).
IdleH ==
  [kind |-> "idle", pc |-> "idle", chat |-> 0, anchor |-> 0, s |-> 0,
   cur |-> 0, todo |-> <<>>, isInterrupt |-> FALSE, attempt |-> 0,
   aborted |-> FALSE, queryCompleted |-> FALSE, err |-> "none",
   stopSeen |-> "none", latched |-> FALSE]

\* handlers that call startProcessing and release the claim at their end
Claiming == {"text", "voice"}

\* awaits before the claimed send of a handler has started
SendToCome == {"transcribing", "retry_wait"}

\* awaits at which a handler still has a send running or to come
SendAhead == {"streaming", "catch"} \cup SendToCome

InFlightOn(HD, s) == {h \in Handlers : HD[h].s = s /\ HD[h].pc \in SendAhead}

LiveOn(HD, s) == {h \in Handlers : HD[h].s = s /\ HD[h].pc # "idle"}

StreamingOn(HD, s) == {h \in Handlers : HD[h].s = s /\ HD[h].pc = "streaming"}

ClaimedOn(HD, s) ==
  {h \in Handlers : HD[h].s = s /\ HD[h].pc # "idle" /\ HD[h].kind \in Claiming}

Referenced(HD, s) ==
  \E h \in Handlers :
    \/ HD[h].s = s
    \/ HD[h].cur = s
    \/ \E i \in 1..Len(HD[h].todo) : HD[h].todo[i] = s

\* sorted sequence of a set of session slots (Map iteration order)
RECURSIVE SeqOf(_)
SeqOf(S) ==
  IF S = {} THEN <<>>
  ELSE LET m == CHOOSE x \in S : \A y \in S : x <= y
       IN <<m>> \o SeqOf(S \ {m})

NoStop == [aimed |-> {}, by |-> "none"]

\* process.env.TELEGRAM_CHAT_ID and TELEGRAM_THREAD_ANCHOR_ID, not yet set
NoEnv == [chat |-> 0, anchor |-> 0]

\* ---------------------------------------------------------- step records
\* A step record carries the program state through the calls of one
\* action: sf/inf are the handlers whose send a pending stop request / an
\* interrupt mark was aimed at, ks the sessions on which no send has begun
\* since kill(), env the chat context in process.env, calls the method
\* calls made by the step.
Cur ==
  [sess |-> sess, reg |-> reg, file |-> file, hd |-> hd,
   sf |-> stopFor, inf |-> intFor, ks |-> killed, env |-> env,
   calls |-> <<>>]

\* the step takes effect; a ThreadSession that is neither registered nor
\* referenced by a handler is garbage, and its slot is free again
Commit(st) ==
  /\ hd' = st.hd
  /\ reg' = st.reg
  /\ file' = st.file
  /\ sess' = [s \in Sessions |->
       IF s \notin st.reg /\ ~Referenced(st.hd, s) THEN NoSession ELSE st.sess[s]]
  /\ stopFor' = [s \in Sessions |->
       IF sess'[s].stopRequested
         THEN [st.sf[s] EXCEPT !.aimed = @ \cap InFlightOn(st.hd, s)]
         ELSE NoStop]
  /\ intFor' = [s \in Sessions |->
       IF sess'[s].wasInterruptedByNewMessage THEN st.inf[s] \cap LiveOn(st.hd, s) ELSE {}]
  /\ killed' = {s \in st.ks : sess'[s] # NoSession}
  /\ env' = st.env
  /\ calls' = st.calls
  /\ UNCHANGED <<now, cfg, stream>>

\* session.stop() on session s, called by an interrupting message (after
\* markInterrupt()), by /stop or by a button callback
DoStop(st, s, by) ==
  LET mark == by = "message"
      r0 == IF mark THEN markInterrupt(st.sess[s]) ELSE st.sess[s]
      x == stop(r0)
      aimed == InFlightOn(st.hd, s)
  IN [st EXCEPT
        !.sess[s] = x.r,
        !.hd = [h \in Handlers |->
                  LET H == st.hd[h]
                  IN [H EXCEPT !.aborted = @ \/ (x.abort = h),
                               !.stopSeen =
                                  IF H.s = s /\
                                     \/ (x.ret = "pending" /\ H.pc \in SendToCome)
                                     \/ (x.ret = "stopped" /\ H.pc = "streaming")
                                    THEN by ELSE @]],
        !.sf[s] = IF x.ret # "false" THEN [aimed |-> aimed, by |-> by] ELSE @,
        !.inf[s] = IF mark THEN aimed ELSE @,
        !.calls = Append(@, [op |-> "stop", s |-> s, ret |-> x.ret,
                             streaming |-> StreamingOn(st.hd, s) # {},
                             claimed |-> ClaimedOn(st.hd, s) # {},
                             signalled |-> x.abort,
                             same |-> x.r = r0])]

DoClear(st, s) == [st EXCEPT !.sess[s] = clearStopRequested(@)]

\* the handler invocation h returns; stopProcessing() for a claiming one
Finish(st, h) ==
  LET H == st.hd[h]
  IN IF H.kind \in Claiming
       THEN [st EXCEPT !.sess[H.s] = stopProcessing(@), !.hd[h] = IdleH]
       ELSE [st EXCEPT !.hd[h] = IdleH]

\* catch block of handler h for an error e raised by sendMessageStreaming
\* ("cancel": Query cancelled, "abort": abort error of the backend,
\*  "crash": "... exited with code N", "other"), up to its next await
DoCatch(st, h, e, cause) ==
  LET H == st.hd[h]
      r == st.sess[H.s]
      c == consumeInterruptFlag(r)
  IN IF H.kind = "text" /\ e = "crash" /\ H.attempt < MAX_RETRIES
       THEN [st EXCEPT !.sess[H.s] = kill(r),
                       !.ks = @ \cup {H.s},
                       !.calls = @ \o <<[op |-> "kill", h |-> h, s |-> H.s],
                                        [op |-> "reply", h |-> h, s |-> H.s,
                                         text |-> "Claude crashed, retrying...",
                                         err |-> e, attempt |-> H.attempt]>>,
                       !.hd[h].pc = "retry_wait", !.hd[h].attempt = @ + 1,
                       !.hd[h].err = e, !.hd[h].stopSeen = "none"]
       ELSE IF e \in {"abort", "cancel"}
         THEN LET st1 == [st EXCEPT
                    !.sess[H.s] = c.r,
                    !.hd[h].err = "none", !.hd[h].stopSeen = "none",
                    !.calls = @ \o <<[op |-> "consume", s |-> H.s, ret |-> c.ret,
                                      before |-> r, after |-> c.r],
                                     [op |-> "cancelled", h |-> h, s |-> H.s,
                                      notice |-> ~c.ret, cause |-> cause]>>]
              IN IF c.ret THEN Finish(st1, h)
                 ELSE [st1 EXCEPT !.hd[h].pc = "err_reply"]
         ELSE [st EXCEPT !.hd[h].pc = "err_reply", !.hd[h].err = "none",
                         !.hd[h].stopSeen = "none",
                         !.calls = Append(@, [op |-> "reply", h |-> h, s |-> H.s,
                                              text |-> "Error", err |-> e,
                                              attempt |-> H.attempt])]

\* handler h calls sendMessageStreaming on its session: the synchronous
\* head of the send and, when it throws, the catch block of the handler
DoSend(st, h) ==
  LET H == st.hd[h]
      e == sendEntry(st.sess[H.s], h)
      context == [chat |-> st.sess[H.s].chatId, anchor |-> st.sess[H.s].threadAnchorId]
  IN IF e.ok
       THEN [st EXCEPT
               !.sess[H.s] = e.r,
               !.ks = @ \ {H.s},
               !.env = context,
               !.hd[h] = [H EXCEPT !.pc = "streaming", !.aborted = FALSE,
                                   !.queryCompleted = FALSE, !.stopSeen = "none",
                                   !.isInterrupt = FALSE, !.err = "none",
                                   !.latched = FALSE],
               !.calls = Append(@, [op |-> "open", h |-> h, s |-> H.s,
                                    afterPending |-> H.stopSeen # "none",
                                    interrupt |-> H.isInterrupt,
                                    attempt |-> H.attempt, after |-> H.err,
                                    resume |-> st.sess[H.s].sessionId,
                                    header |-> ~isActive(st.sess[H.s]),
                                    afterKill |-> H.s \in st.ks])]
       ELSE DoCatch([st EXCEPT
               !.sess[H.s] = e.r,
               !.ks = @ \ {H.s},
               !.env = context,
               !.hd[h].isInterrupt = FALSE, !.hd[h].err = "none",
               !.calls = Append(@, [op |-> "reject", h |-> h, s |-> H.s,
                                    carried |-> st.sf[H.s].aimed \cap InFlightOn(st.hd, H.s) = {},
                                    interrupt |-> H.isInterrupt,
                                    attempt |-> H.attempt, after |-> H.err])], h, "cancel",
               st.sf[H.s].by)

\* the title a handler gives to the session it creates
TitleOf(kind) == IF kind = "voice" THEN "[Voice message]" ELSE "msg"

\* getOrCreateSession and startProcessing of handler h
DoClaim(st, h) ==
  LET H == st.hd[h]
      g == getOrCreateSession(st.sess, st.reg, H.chat, H.anchor, TitleOf(H.kind),
                              freeSlot(st.sess, st.hd))
  IN [st EXCEPT
        !.sess = [g.sess EXCEPT ![g.s] = startProcessing(@)],
        !.reg = g.reg,
        !.file = IF g.saved THEN saveSessions(g.sess, g.reg, now) ELSE @,
        !.hd[h] = [H EXCEPT !.s = g.s, !.anchor = 0, !.cur = 0, !.todo = <<>>],
        !.calls = IF ~g.found
                    THEN Append(@, [op |-> "create", h |-> h, chat |-> H.chat, s |-> g.s,
                                    victim |-> g.victim,
                                    victimTime |-> IF g.victim = 0 THEN 0
                                                   ELSE activityTime(st.sess[g.victim]),
                                    idle |-> {x \in getSessionsForChat(st.sess, st.reg, H.chat) :
                                                ~isRunning(st.sess[x])},
                                    busy |-> g.victim # 0 /\
                                       (StreamingOn(st.hd, g.victim) # {} \/
                                        ClaimedOn(st.hd, g.victim) # {})])
                    ELSE Append(@, [op |-> "get", h |-> h, s |-> g.s,
                                    title |-> TitleOf(H.kind),
                                    same |-> g.sess = st.sess,
                                    running |-> getRunningCount(st.sess, st.reg, H.chat)])]

\* a claim needs a ThreadSession: the registered one or a free slot
CanClaim(st, h) ==
  \/ (st.hd[h].anchor # 0 /\ getSession(st.sess, st.reg, st.hd[h].chat, st.hd[h].anchor) # 0)
  \/ freeSlot(st.sess, st.hd) # 0

\* ------------------------------------------------------------- handleText
\* step 5: the loop over the sessions of the chat, up to the sleep after
\* the next stop() or, with no running session left, on to steps 6-10
InterruptLoop(st, h) ==
  LET H == st.hd[h]
      run == {i \in 1..Len(H.todo) : isRunning(st.sess[H.todo[i]])}
  IN IF run = {}
       THEN /\ CanClaim(st, h)
            /\ Commit(DoSend(DoClaim(st, h), h))
       ELSE LET i == CHOOSE x \in run : \A y \in run : x <= y
                d == DoStop(st, H.todo[i], "message")
            IN Commit([d EXCEPT !.hd[h] = [H EXCEPT !.pc = "int_sleep", !.cur = H.todo[i],
                                 !.todo = SubSeq(H.todo, i + 1, Len(H.todo))]])

\* from the entry to the first await: a message of chat c that replies
\* into the thread of session tgt (0: starts a new thread)
TextStart(h, c, tgt, int) ==
  /\ hd[h].pc = "idle"
  /\ tgt = 0 \/ (tgt \in reg /\ sess[tgt].chatId = c)
  /\ InterruptLoop([Cur EXCEPT !.hd[h] =
       [IdleH EXCEPT !.kind = "text", !.chat = c, !.isInterrupt = int,
                     !.anchor = IF tgt = 0 THEN 0 ELSE sess[tgt].threadAnchorId,
                     !.todo = IF int THEN SeqOf(getSessionsForChat(sess, reg, c)) ELSE <<>>]], h)

\* after Bun.sleep(50): clearStopRequested, rest of the loop
TextInterruptWake(h) ==
  /\ hd[h].kind = "text" /\ hd[h].pc = "int_sleep"
  /\ InterruptLoop(DoClear(Cur, hd[h].cur), h)

\* after the reply that announces the retry
TextRetry(h) ==
  /\ hd[h].kind = "text" /\ hd[h].pc = "retry_wait"
  /\ Commit(DoSend(Cur, h))

\* ------------------------------------------------------------- handleStop
\* the loop over the running sessions, up to the sleep after the next
\* stop() that returned a result, or to the end of the handler
RECURSIVE StopLoop(_, _)
StopLoop(st, h) ==
  LET H == st.hd[h]
  IN IF H.todo = <<>>
       THEN Finish(st, h)
       ELSE LET d == DoStop(st, Head(H.todo), "explicit")
            IN IF d.calls[Len(d.calls)].ret # "false"
                 THEN [d EXCEPT !.hd[h].pc = "stop_sleep",
                                !.hd[h].cur = Head(H.todo),
                                !.hd[h].todo = Tail(H.todo)]
                 ELSE StopLoop([d EXCEPT !.hd[h].todo = Tail(H.todo)], h)

\* /stop in chat c, sent as a reply into the thread of session tgt (0: not
\* a reply): stops that thread if it is running, all running ones otherwise
StopStart(h, c, tgt) ==
  /\ hd[h].pc = "idle"
  /\ tgt = 0 \/ (tgt \in reg /\ sess[tgt].chatId = c)
  /\ LET one == tgt # 0 /\ isRunning(sess[tgt])
         running == {s \in getSessionsForChat(sess, reg, c) : isRunning(sess[s])}
     IN /\ running # {}
        /\ Commit(StopLoop([Cur EXCEPT !.hd[h] =
             [IdleH EXCEPT !.kind = "stop", !.chat = c,
                           !.todo = IF one THEN <<tgt>> ELSE SeqOf(running)]], h))

\* after Bun.sleep: clearStopRequested, then the rest of the loop
StopWake(h) ==
  /\ hd[h].kind = "stop" /\ hd[h].pc = "stop_sleep"
  /\ Commit(StopLoop(DoClear([Cur EXCEPT !.hd[h].cur = 0], hd[h].cur), h))

\* -------------------------------------------------- handleAskUserCallback
\* a button press answered for session s, from the session lookup to the
\* first await after it
CallbackStart(h, c, s) ==
  /\ hd[h].pc = "idle"
  /\ s \in reg /\ sess[s].chatId = c
  /\ LET st == [Cur EXCEPT !.hd[h] = [IdleH EXCEPT !.kind = "callback", !.chat = c, !.s = s]]
     IN IF isRunning(sess[s])
          THEN Commit([DoStop(st, s, "button") EXCEPT !.hd[h].pc = "cb_sleep"])
          ELSE Commit(DoSend(st, h))

\* after Bun.sleep(100)
CallbackWake(h) ==
  /\ hd[h].kind = "callback" /\ hd[h].pc = "cb_sleep"
  /\ Commit(DoSend(Cur, h))

\* ------------------------------------------------------------ handleVoice
\* a voice message opens a new thread and claims it before transcribing
VoiceStart(h, c) ==
  /\ hd[h].pc = "idle"
  /\ LET st == [Cur EXCEPT !.hd[h] = [IdleH EXCEPT !.kind = "voice", !.chat = c]]
     IN /\ CanClaim(st, h)
        /\ Commit([DoClaim(st, h) EXCEPT !.hd[h].pc = "transcribing"])

\* download and transcription are over: a transcript ("ok"), no transcript
\* ("empty") or an exception ("throw")
VoiceTranscribed(h, res) ==
  /\ hd[h].kind = "voice" /\ hd[h].pc = "transcribing"
  /\ CASE res = "ok" -> Commit(DoSend(Cur, h))
       [] res = "empty" -> Commit(Finish(Cur, h))
       [] OTHER -> Commit(DoCatch(Cur, h, "other", "none"))

\* ----------------------------------------------- the stream of one send
\* normal exit of sendMessageStreaming: finally block, lastActivity, and
\* the await of the closing status callbacks
sendReturn(r, t) == sendCompleted(sendFinally(r), t)

\* the for-await loop stops consuming on a stop request
loopBreaks(r) == r.stopRequested

\* session ids issued by the backend
BackendSessionId == 1

\* one iteration of the for-await loop on a backend event
StreamEvent(h, isResult) ==
  /\ hd[h].pc = "streaming"
  /\ ~hd[h].queryCompleted
  /\ LET s == hd[h].s
     IN IF loopBreaks(sess[s])
          THEN Commit([Cur EXCEPT !.sess[s] = sendReturn(@, now),
                                  !.hd[h].pc = "post",
                                  !.hd[h].stopSeen = "none",
                                  !.calls = <<[op |-> "break", h |-> h, s |-> s]>>])
          ELSE Commit([Cur EXCEPT !.sess[s] = latchSessionId(@, BackendSessionId),
                                  !.hd[h].queryCompleted = isResult,
                                  !.calls = <<[op |-> "event", h |-> h, s |-> s,
                                               afterStop |-> hd[h].stopSeen # "none"]>>])

\* session ids the backend may issue (0: the event carries none)
BackendIds == {1, 2}

\* one iteration of the loop on an event that carries session id `id`;
\* latched records that this send has set the session id of its session
StreamEventId(h, id, isResult) ==
  /\ hd[h].pc = "streaming"
  /\ ~hd[h].queryCompleted
  /\ LET s == hd[h].s
         r == latchSessionId(sess[s], id)
     IN IF loopBreaks(sess[s])
          THEN Commit([Cur EXCEPT !.sess[s] = sendReturn(@, now),
                                  !.hd[h].pc = "post",
                                  !.hd[h].stopSeen = "none",
                                  !.hd[h].latched = FALSE,
                                  !.calls = <<[op |-> "break", h |-> h, s |-> s]>>])
          ELSE Commit([Cur EXCEPT !.sess[s] = r,
                                  !.hd[h].queryCompleted = isResult,
                                  !.hd[h].latched = @ \/ r # sess[s],
                                  !.calls = <<[op |-> "event", h |-> h, s |-> s,
                                               afterStop |-> hd[h].stopSeen # "none",
                                               id |-> id,
                                               again |-> hd[h].latched /\ r # sess[s]]>>])

\* the backend stream ends (after its result, or because it was aborted)
StreamEnd(h) ==
  /\ hd[h].pc = "streaming"
  /\ hd[h].queryCompleted \/ hd[h].aborted
  /\ Commit([Cur EXCEPT !.sess[hd[h].s] = sendReturn(@, now),
                        !.hd[h].pc = "post", !.hd[h].stopSeen = "none"])

\* the error of the send's catch block is swallowed
isSuppressed(r, H, e) == e = "abort" /\ (H.queryCompleted \/ r.stopRequested)

\* the backend stream throws e; the catch block of handleVoice has no
\* await before its consumeInterruptFlag, the other handlers first delete
\* the tool messages of the attempt
StreamError(h, e) ==
  /\ hd[h].pc = "streaming"
  /\ e \in {"crash", "other"} \cup (IF hd[h].aborted THEN {"abort"} ELSE {})
  /\ LET s == hd[h].s
     IN IF isSuppressed(sess[s], hd[h], e)
          THEN Commit([Cur EXCEPT !.sess[s] = sendReturn(@, now),
                                  !.hd[h].pc = "post", !.hd[h].stopSeen = "none",
                                  !.calls = <<[op |-> "swallow", h |-> h, s |-> s,
                                               err |-> e,
                                               completed |-> hd[h].queryCompleted,
                                               afterStop |-> hd[h].stopSeen # "none"]>>])
          ELSE LET st == [Cur EXCEPT
                            !.sess[s] = sendFinally(@),
                            !.calls = <<[op |-> "raise", h |-> h, s |-> s, err |-> e,
                                         completed |-> hd[h].queryCompleted,
                                         afterStop |-> hd[h].stopSeen # "none"]>>]
               IN IF hd[h].kind = "voice"
                    THEN Commit(DoCatch(st, h, e, hd[h].stopSeen))
                    ELSE Commit([st EXCEPT !.hd[h].pc = "catch", !.hd[h].err = e])

\* the ask-user side channel serves a tool call of the backend call of
\* handler h and takes the chat and the thread from the process environment
AskUserReads(h) ==
  /\ hd[h].pc = "streaming"
  /\ ~hd[h].queryCompleted
  /\ Commit([Cur EXCEPT !.calls = <<[op |-> "askuser", h |-> h, s |-> hd[h].s,
                                     chat |-> env.chat, anchor |-> env.anchor]>>])

\* ------------------------------------------------- handler continuations
\* after a send that returned: audit log, saveSessions, release
HandlerPost(h) ==
  /\ hd[h].pc = "post"
  /\ Commit(Finish([Cur EXCEPT !.file = saveSessions(sess, reg, now),
                               !.calls = <<[op |-> "save"]>>], h))

\* catch block of the handler after the tool messages were deleted
HandlerCatch(h) ==
  /\ hd[h].pc = "catch"
  /\ Commit(DoCatch(Cur, h, hd[h].err, hd[h].stopSeen))

\* after the reply that reports the stop or the error
HandlerErrReply(h) ==
  /\ hd[h].pc = "err_reply"
  /\ Commit(Finish(Cur, h))

\* ctx.reply throws while handler h announces the retry or reports the
\* stop or the error from its catch block: the exception leaves
\* handleText before its stopProcessing(); handleVoice releases in its
\* finally block
ReplyFails(h) ==
  /\ hd[h].kind \in Claiming
  /\ hd[h].pc \in {"err_reply", "retry_wait"}
  /\ IF hd[h].kind = "text"
       THEN Commit([Cur EXCEPT !.hd[h] = IdleH,
                               !.calls = <<[op |-> "escape", h |-> h, s |-> hd[h].s]>>])
       ELSE Commit(Finish(Cur, h))

\* ------------------------------------------------------------ environment
Tick ==
  /\ now < MaxTime + SESSION_TIMEOUT_MS
  /\ now' = now + 1
  /\ calls' = <<>>
  /\ UNCHANGED <<sess, reg, file, hd, stopFor, intFor, cfg, stream, killed, env>>

\* the 5-minute timer: cleanupInactiveSessions
Cleanup ==
  LET gone == cleanupSet(sess, reg, now)
  IN /\ gone # {}
     /\ Commit([Cur EXCEPT !.reg = reg \ gone,
                           !.file = saveSessions(sess, reg \ gone, now),
                           !.calls = <<[op |-> "cleanup", removed |-> gone,
                                        cleaned |-> Cardinality(gone),
                                        times |-> {activityTime(sess[s]) : s \in gone},
                                        busy |-> \E s \in gone :
                                           StreamingOn(hd, s) # {} \/ ClaimedOn(hd, s) # {}]>>])

Init ==
  /\ sess = [s \in Sessions |-> NoSession]
  /\ reg = {}
  /\ file = [version |-> 1, sessions |-> {}]
  /\ now = StartTime
  /\ hd = [h \in Handlers |-> IdleH]
  /\ stopFor = [s \in Sessions |-> NoStop]
  /\ intFor = [s \in Sessions |-> {}]
  /\ killed = {}
  /\ env = NoEnv
  /\ calls = <<>>
  /\ cfg = [slots |-> {1}, chats |-> {1}]
  /\ stream = NoStream

Next ==
  \/ \E h \in Handlers, c \in cfg.chats, tgt \in {0} \cup Sessions, int \in BOOLEAN :
       TextStart(h, c, tgt, int)
  \/ \E h \in Handlers : TextInterruptWake(h)
  \/ \E h \in Handlers : TextRetry(h)
  \/ \E h \in Handlers, c \in cfg.chats, tgt \in {0} \cup Sessions : StopStart(h, c, tgt)
  \/ \E h \in Handlers : StopWake(h)
  \/ \E h \in Handlers, c \in cfg.chats, s \in Sessions : CallbackStart(h, c, s)
  \/ \E h \in Handlers : CallbackWake(h)
  \/ \E h \in Handlers, c \in cfg.chats : VoiceStart(h, c)
  \/ \E h \in Handlers, res \in {"ok", "empty", "throw"} : VoiceTranscribed(h, res)
  \/ \E h \in Handlers, isResult \in BOOLEAN : StreamEvent(h, isResult)
  \/ \E h \in Handlers : StreamEnd(h)
  \/ \E h \in Handlers, e \in {"abort", "crash", "other"} : StreamError(h, e)
  \/ \E h \in Handlers : HandlerPost(h)
  \/ \E h \in Handlers : HandlerCatch(h)
  \/ \E h \in Handlers : HandlerErrReply(h)
  \/ Cleanup

Spec == Init /\ [][Next]_vars

\* The registry under plain traffic: messages of two chats that each open
\* a new thread and are answered, while the clock advances.
InitReg ==
  /\ sess = [s \in Sessions |-> NoSession]
  /\ reg = {}
  /\ file = [version |-> 1, sessions |-> {}]
  /\ now = StartTime
  /\ hd = [h \in Handlers |-> IdleH]
  /\ stopFor = [s \in Sessions |-> NoStop]
  /\ intFor = [s \in Sessions |-> {}]
  /\ killed = {}
  /\ env = NoEnv
  /\ calls = <<>>
  /\ cfg = [slots |-> Sessions, chats |-> Chats]
  /\ stream = NoStream

NextReg ==
  \/ \E h \in Handlers, c \in cfg.chats : TextStart(h, c, 0, FALSE)
  \/ \E h \in Handlers : StreamEvent(h, TRUE)
  \/ \E h \in Handlers : StreamEnd(h)
  \/ \E h \in Handlers : HandlerPost(h)
  \/ Tick

SpecReg == InitReg /\ [][NextReg]_vars

\* Replies into registered threads: text messages that open threads or reply
\* into them and voice messages on two session slots of one chat.
InitGet ==
  /\ sess = [s \in Sessions |-> NoSession]
  /\ reg = {}
  /\ file = [version |-> 1, sessions |-> {}]
  /\ now = StartTime
  /\ hd = [h \in Handlers |-> IdleH]
  /\ stopFor = [s \in Sessions |-> NoStop]
  /\ intFor = [s \in Sessions |-> {}]
  /\ calls = <<>>
  /\ cfg = [slots |-> {1, 2}, chats |-> {1}]
  /\ stream = NoStream
  /\ killed = {}
  /\ env = NoEnv

NextGet ==
  \/ \E h \in Handlers, c \in cfg.chats, tgt \in {0} \cup cfg.slots :
       TextStart(h, c, tgt, FALSE)
  \/ \E h \in Handlers, c \in cfg.chats : VoiceStart(h, c)
  \/ \E h \in Handlers : VoiceTranscribed(h, "ok")
  \/ \E h \in Handlers : StreamEvent(h, TRUE)
  \/ \E h \in Handlers : StreamEnd(h)
  \/ \E h \in Handlers : HandlerPost(h)

SpecGet == InitGet /\ [][NextGet]_vars

\* Eviction and cleanup among sessions with and without a completed send:
\* text messages of one chat that open threads, sends that return or fail,
\* the clock and the cleanup timer.
InitOrder ==
  /\ sess = [s \in Sessions |-> NoSession]
  /\ reg = {}
  /\ file = [version |-> 1, sessions |-> {}]
  /\ now = StartTime
  /\ hd = [h \in Handlers |-> IdleH]
  /\ stopFor = [s \in Sessions |-> NoStop]
  /\ intFor = [s \in Sessions |-> {}]
  /\ killed = {}
  /\ env = NoEnv
  /\ calls = <<>>
  /\ cfg = [slots |-> {1, 2, 3, 4}, chats |-> {1}]
  /\ stream = NoStream

NextOrder ==
  \/ \E h \in Handlers, c \in cfg.chats : TextStart(h, c, 0, FALSE)
  \/ \E h \in Handlers : StreamEvent(h, TRUE)
  \/ \E h \in Handlers : StreamEnd(h)
  \/ \E h \in Handlers : StreamError(h, "other")
  \/ \E h \in Handlers : HandlerPost(h)
  \/ \E h \in Handlers : HandlerCatch(h)
  \/ \E h \in Handlers : HandlerErrReply(h)
  \/ Tick
  \/ Cleanup

SpecOrder == InitOrder /\ [][NextOrder]_vars

\* Sends on two threads of one chat while the ask-user side channel reads
\* the chat context.
NextEnv ==
  \/ \E h \in Handlers, c \in cfg.chats, tgt \in {0} \cup cfg.slots :
       TextStart(h, c, tgt, FALSE)
  \/ \E h \in Handlers : AskUserReads(h)
  \/ \E h \in Handlers : StreamEvent(h, TRUE)
  \/ \E h \in Handlers : StreamEnd(h)
  \/ \E h \in Handlers : HandlerPost(h)

SpecEnv == InitGet /\ [][NextEnv]_vars

\* The exits of the claiming handlers: text and voice messages on one
\* thread whose sends return or fail, and whose replies may fail.
NextRelease ==
  \/ \E h \in Handlers, c \in cfg.chats, tgt \in {0} \cup cfg.slots :
       TextStart(h, c, tgt, FALSE)
  \/ \E h \in Handlers : TextRetry(h)
  \/ \E h \in Handlers, c \in cfg.chats : VoiceStart(h, c)
  \/ \E h \in Handlers, res \in {"ok", "empty", "throw"} : VoiceTranscribed(h, res)
  \/ \E h \in Handlers : StreamEvent(h, TRUE)
  \/ \E h \in Handlers : StreamEnd(h)
  \/ \E h \in Handlers, e \in {"crash", "other"} : StreamError(h, e)
  \/ \E h \in Handlers : HandlerPost(h)
  \/ \E h \in Handlers : HandlerCatch(h)
  \/ \E h \in Handlers : HandlerErrReply(h)
  \/ \E h \in Handlers : ReplyFails(h)

SpecRelease == Init /\ [][NextRelease]_vars

\* The cleanup timer: text messages of one chat that open threads or reply
\* into them, sends that return or fail, and a clock that runs long enough
\* for a session to age past the timeout.
InitClean ==
  /\ sess = [s \in Sessions |-> NoSession]
  /\ reg = {}
  /\ file = [version |-> 1, sessions |-> {}]
  /\ now = StartTime
  /\ hd = [h \in Handlers |-> IdleH]
  /\ stopFor = [s \in Sessions |-> NoStop]
  /\ intFor = [s \in Sessions |-> {}]
  /\ killed = {}
  /\ env = NoEnv
  /\ calls = <<>>
  /\ cfg = [slots |-> {1, 2, 3}, chats |-> {1}, handlers |-> {1}]
  /\ stream = NoStream

TickClean ==
  /\ now < MaxTime + 2 * SESSION_TIMEOUT_MS
  /\ now' = now + 1
  /\ calls' = <<>>
  /\ UNCHANGED <<sess, reg, file, hd, stopFor, intFor, cfg, stream, killed, env>>

NextClean ==
  \/ \E h \in cfg.handlers, c \in cfg.chats, tgt \in {0} \cup cfg.slots :
       TextStart(h, c, tgt, FALSE)
  \/ \E h \in cfg.handlers : StreamEvent(h, TRUE)
  \/ \E h \in cfg.handlers : StreamEnd(h)
  \/ \E h \in cfg.handlers : StreamError(h, "other")
  \/ \E h \in cfg.handlers : HandlerPost(h)
  \/ \E h \in cfg.handlers : HandlerCatch(h)
  \/ \E h \in cfg.handlers : HandlerErrReply(h)
  \/ TickClean
  \/ Cleanup

SpecClean == InitClean /\ [][NextClean]_vars

\* ------------------------------------------------- persistence and restart
\* /new in chat c: stopAllSessions, then clearSessionsForChat
RECURSIVE StopAll(_, _)
StopAll(st, todo) ==
  IF todo = <<>> THEN st ELSE StopAll(DoStop(st, Head(todo), "explicit"), Tail(todo))

NewCommand(c) ==
  LET mine == getSessionsForChat(sess, reg, c)
      st == StopAll(Cur, SeqOf(mine))
      g == clearSessionsForChat(st.sess, reg, file, c,
                                getSessionsForChat(st.sess, reg, c), now)
  IN /\ mine # {}
     /\ Commit([st EXCEPT !.reg = g.reg,
                          !.file = g.file,
                          !.calls = Append(@, [op |-> "clear", chat |-> c,
                                               removed |-> mine,
                                               count |-> g.count])])

\* removeSession called with the key of chat c and thread a
RemoveSession(c, a) ==
  LET g == removeSession(sess, reg, file, c, a, now)
  IN Commit([Cur EXCEPT !.reg = g.reg, !.file = g.file,
                        !.calls = <<[op |-> "remove", chat |-> c, anchor |-> a,
                                     ret |-> g.ret]>>])

\* /resume in chat c: the list of sessions offered
ResumeList(c) ==
  Commit([Cur EXCEPT !.calls = <<[op |-> "persisted", version |-> file.version,
                                   records |-> getPersistedSessions(file, c)]>>])

\* the button of thread a pressed in chat c: resumeSession
ResumeCallback(c, a) ==
  LET g == resumeSession(sess, reg, file, c, a, now)
  IN /\ sess[a].chatId = 0 \/ a \in reg
     /\ Commit([Cur EXCEPT !.sess = g.sess, !.reg = g.reg,
                           !.calls = <<[op |-> "resume", version |-> file.version,
                                        chat |-> c, s |-> a, made |-> g.made,
                                        ret |-> g.ret]>>])

\* the process ends and starts again: loadSessions on the file it finds
Restart ==
  LET g == loadSessions(file, now)
  IN Commit([Cur EXCEPT !.sess = g.sess, !.reg = g.reg, !.ks = {},
                        !.env = NoEnv,
                        !.hd = [h \in Handlers |-> IdleH],
                        !.calls = <<[op |-> "load", version |-> file.version,
                                     loaded |-> g.reg]>>])

\* the version tag of a sessions file this program did not write
UnknownVersion == 2

\* the record of a session of chat 1, thread 1
SomeRecord == toData([ThreadSession(1, 1, "msg", StartTime) EXCEPT
                        !.sessionId = BackendSessionId], StartTime)

\* the sessions file found at the first start; one handler at a time is
\* in flight here, on two threads
FileStates == [version : {1, UnknownVersion}, sessions : {{}, {SomeRecord}}]

InitPersist ==
  /\ file \in FileStates
  /\ now = StartTime
  /\ sess = loadSessions(file, now).sess
  /\ reg = loadSessions(file, now).reg
  /\ hd = [h \in Handlers |-> IdleH]
  /\ stopFor = [s \in Sessions |-> NoStop]
  /\ intFor = [s \in Sessions |-> {}]
  /\ killed = {}
  /\ env = NoEnv
  /\ calls = <<>>
  /\ cfg = [slots |-> {1, 2}, chats |-> {1}, handlers |-> {1}]
  /\ stream = NoStream

NextPersist ==
  \/ \E h \in cfg.handlers, c \in cfg.chats, tgt \in {0} \cup Sessions :
       TextStart(h, c, tgt, FALSE)
  \/ \E h \in cfg.handlers : TextRetry(h)
  \/ \E h \in cfg.handlers, isResult \in BOOLEAN : StreamEvent(h, isResult)
  \/ \E h \in cfg.handlers : StreamEnd(h)
  \/ \E h \in cfg.handlers, e \in {"crash", "other"} : StreamError(h, e)
  \/ \E h \in cfg.handlers : HandlerPost(h)
  \/ \E h \in cfg.handlers : HandlerCatch(h)
  \/ \E h \in cfg.handlers : HandlerErrReply(h)
  \/ \E c \in cfg.chats : NewCommand(c)
  \/ \E c \in cfg.chats : ResumeList(c)
  \/ \E c \in cfg.chats, a \in cfg.slots : ResumeCallback(c, a)
  \/ Cleanup
  \/ Restart

SpecPersist == InitPersist /\ [][NextPersist]_vars

\* Removal from the registry: text messages of two chats on three session
\* slots, /new, and removeSession on the keys of these chats and slots.
InitClear ==
  /\ sess = [s \in Sessions |-> NoSession]
  /\ reg = {}
  /\ file = [version |-> 1, sessions |-> {}]
  /\ now = StartTime
  /\ hd = [h \in Handlers |-> IdleH]
  /\ stopFor = [s \in Sessions |-> NoStop]
  /\ intFor = [s \in Sessions |-> {}]
  /\ killed = {}
  /\ env = NoEnv
  /\ calls = <<>>
  /\ cfg = [slots |-> {1, 2, 3}, chats |-> Chats, handlers |-> {1}]
  /\ stream = NoStream

NextClear ==
  \/ \E h \in cfg.handlers, c \in cfg.chats, tgt \in {0} \cup cfg.slots :
       TextStart(h, c, tgt, FALSE)
  \/ \E h \in cfg.handlers : StreamEvent(h, TRUE)
  \/ \E h \in cfg.handlers : StreamEnd(h)
  \/ \E h \in cfg.handlers : HandlerPost(h)
  \/ \E c \in cfg.chats : NewCommand(c)
  \/ \E c \in cfg.chats, a \in cfg.slots : RemoveSession(c, a)

SpecClear == InitClear /\ [][NextClear]_vars

\* ------------------------------------------------------ session id latch
\* Text messages on one thread, answered by a backend that issues either
\* of two session ids or none with an event, with crashes, retries,
\* cleanup and restarts.
InitLatch ==
  /\ sess = [s \in Sessions |-> NoSession]
  /\ reg = {}
  /\ file = [version |-> 1, sessions |-> {}]
  /\ now = StartTime
  /\ hd = [h \in Handlers |-> IdleH]
  /\ stopFor = [s \in Sessions |-> NoStop]
  /\ intFor = [s \in Sessions |-> {}]
  /\ killed = {}
  /\ env = NoEnv
  /\ calls = <<>>
  /\ cfg = [slots |-> {1}, chats |-> {1}]
  /\ stream = NoStream

NextLatch ==
  \/ \E h \in Handlers, c \in cfg.chats, tgt \in {0} \cup Sessions :
       TextStart(h, c, tgt, FALSE)
  \/ \E h \in Handlers : TextRetry(h)
  \/ \E h \in Handlers, id \in {0} \cup BackendIds, isResult \in BOOLEAN :
       StreamEventId(h, id, isResult)
  \/ \E h \in Handlers : StreamEnd(h)
  \/ \E h \in Handlers, e \in {"crash", "other"} : StreamError(h, e)
  \/ \E h \in Handlers : HandlerPost(h)
  \/ \E h \in Handlers : HandlerCatch(h)
  \/ \E h \in Handlers : HandlerErrReply(h)
  \/ Cleanup
  \/ Restart

SpecLatch == InitLatch /\ [][NextLatch]_vars

\* ---------------------------------------------------- the stream loop
\* One call of sendMessageStreaming from the creation of its locals to its
\* return or throw, content block by content block.  The blocks of an
\* assistant event are drawn one at a time; stop() may be called wherever
\* the call is suspended in an await.
Blocks ==
  [type : {"thinking"}, name : {""}, input : {"", "hmm"}] \cup
  [type : {"tool_use"}, name : {"Bash"}, input : {"ls", "rm -rf /"}] \cup
  [type : {"tool_use"}, name : {"Read"},
   input : {"/work/a.txt", "/tmp/a.txt", "/etc/passwd", "/etc/abort.conf"}] \cup
  [type : {"tool_use"}, name : {"mcp__ask-user"}, input : {""}] \cup
  [type : {"text"}, name : {""}, input : {<<>>, <<"a">>, <<"b">>}]

\* the errors the backend iterator throws
BackendErrors ==
  {<<"The operation was aborted">>, <<"Claude Code process exited with code 1">>}

StreamFrame ==
  UNCHANGED <<sess, reg, file, now, hd, stopFor, intFor, calls, cfg, killed, env>>

InitStream ==
  /\ sess = [s \in Sessions |-> NoSession]
  /\ reg = {}
  /\ file = [version |-> 1, sessions |-> {}]
  /\ now = StartTime
  /\ hd = [h \in Handlers |-> IdleH]
  /\ stopFor = [s \in Sessions |-> NoStop]
  /\ intFor = [s \in Sessions |-> {}]
  /\ killed = {}
  /\ env = NoEnv
  /\ calls = <<>>
  /\ cfg = [slots |-> {1}, chats |-> {1}]
  /\ \E id \in {0, BackendSessionId}, tool \in {"", "Bash"},
        e \in {NoError, <<"Claude Code process exited with code 1">>} :
       stream = [NoStream EXCEPT !.pc = "pull", !.awaiting = TRUE,
                                 !.sessionId = id, !.lastTool = tool,
                                 !.isQueryRunning = TRUE, !.abortController = 1,
                                 !.queryStarted = now,
                                 !.lastError = e,
                                 !.lastErrorTime = IF e = NoError THEN 0 ELSE now]

\* a finally block that leaves the abort controller in place
finallyKeepsController(r) ==
  [r EXCEPT !.isQueryRunning = FALSE, !.queryStarted = 0, !.currentTool = ""]

\* the finally block
finally(r) ==
  [r EXCEPT !.isQueryRunning = FALSE, !.abortController = 0,
            !.queryStarted = 0, !.currentTool = ""]

\* the catch block on the pending error, then finally
catch(r) ==
  IF catchSuppresses(r)
    THEN [finally(r) EXCEPT !.pc = "post", !.err = NoError]
    ELSE [finally(r) EXCEPT !.pc = "raised", !.lastError = r.err,
                            !.lastErrorTime = now]

\* the iterator yields an assistant event: the stop check, the session id
\* latch, and the loop over its content starts
AssistantEvent ==
  /\ stream.pc = "pull"
  /\ stream' = IF stream.stopRequested
                 THEN [finally(stream) EXCEPT !.pc = "post"]
                 ELSE [latchSessionId(stream, BackendSessionId) EXCEPT
                         !.pc = "blocks", !.awaiting = FALSE]
  /\ StreamFrame

\* the iterator yields the result event
ResultEvent ==
  /\ stream.pc = "pull"
  /\ stream' = IF stream.stopRequested
                 THEN [finally(stream) EXCEPT !.pc = "post"]
                 ELSE [latchSessionId(stream, BackendSessionId) EXCEPT
                         !.queryCompleted = TRUE]
  /\ StreamFrame

\* one content block of the assistant event
Block(b, answers, elapsed) ==
  /\ stream.pc = "blocks"
  /\ stream.blocks < MaxBlocks
  /\ stream.lastTextUpdate = 0 => elapsed
  /\ LET r == [stream EXCEPT !.blocks = @ + 1]
     IN stream' =
          IF b.type = "thinking"
            THEN IF b.input # "" THEN statusCallback(r, "thinking", b.input, 0, 0)
                                 ELSE r
          ELSE IF b.type = "tool_use"
            THEN IF safetyError(b).err # NoError
                   THEN [statusCallback(r, "tool", safetyError(b).text, 0, 0)
                           EXCEPT !.pc = "throw", !.err = safetyError(b).err]
                   ELSE acceptTool(r, b, answers)
          ELSE textBlock(r, b.input, elapsed)
  /\ StreamFrame

\* throw new Error(...) after the tool event of a rejected invocation
Throw ==
  /\ stream.pc = "throw"
  /\ stream' = catch(stream)
  /\ StreamFrame

\* the content of the event is exhausted
EndOfContent ==
  /\ stream.pc = "blocks"
  /\ stream' = IF stream.askUserTriggered
                 THEN [finally(stream) EXCEPT !.pc = "post"]
                 ELSE [stream EXCEPT !.pc = "pull", !.awaiting = TRUE]
  /\ StreamFrame

\* the iterator is exhausted
StreamEnds ==
  /\ stream.pc = "pull"
  /\ stream' = [finally(stream) EXCEPT !.pc = "post"]
  /\ StreamFrame

\* the iterator throws
StreamThrows(e) ==
  /\ stream.pc = "pull"
  /\ stream' = catch([stream EXCEPT !.err = e])
  /\ StreamFrame

\* stop() while the call is suspended in the loop
StopDuringStream ==
  /\ stream.pc \in {"pull", "blocks", "throw"}
  /\ stream.awaiting
  /\ stream.isQueryRunning /\ stream.abortController # 0
  /\ ~stream.stopRequested
  /\ stream' = [stream EXCEPT !.stopRequested = TRUE]
  /\ StreamFrame

\* after the try: the ask-user return, or the final flush
AfterLoop ==
  /\ stream.pc = "post"
  /\ LET r == completion(stream, now)
     IN stream' =
          IF r.askUserTriggered
            THEN [statusCallback(r, "done", "", 0, 0)
                    EXCEPT !.pc = "returned", !.ret = WaitingForUser]
          ELSE IF r.currentSegmentText # <<>>
            THEN [statusCallback(r, "segment_end", r.currentSegmentText,
                                 length(r.currentSegmentText),
                                 r.currentSegmentId) EXCEPT !.pc = "done"]
          ELSE [statusCallback(r, "done", "", 0, 0)
                  EXCEPT !.pc = "returned", !.ret = responseText(r)]
  /\ StreamFrame

\* a return without the done event
DoneOmitted ==
  /\ stream.pc = "done"
  /\ stream' = [stream EXCEPT !.pc = "returned", !.ret = responseText(stream)]
  /\ StreamFrame

\* statusCallback("done") and the return
Done ==
  /\ stream.pc = "done"
  /\ stream' = [statusCallback(stream, "done", "", 0, 0)
                  EXCEPT !.pc = "returned", !.ret = responseText(stream)]
  /\ StreamFrame

NextStream ==
  \/ AssistantEvent
  \/ ResultEvent
  \/ \E b \in Blocks, answers \in [1..POLL_ATTEMPTS -> BOOLEAN], elapsed \in BOOLEAN :
       Block(b, answers, elapsed)
  \/ Throw
  \/ EndOfContent
  \/ StreamEnds
  \/ \E e \in BackendErrors : StreamThrows(e)
  \/ StopDuringStream
  \/ AfterLoop
  \/ Done

SpecStream == InitStream /\ [][NextStream]_vars

\* ------------------------------------------------ one send and the clock
\* One call of sendMessageStreaming from its entry, before the check of
\* stopRequested, to its return or throw, while time passes in its awaits.
SendBlocks ==
  {b \in Blocks : \/ (b.type = "text" /\ b.input = <<"a">>)
                   \/ b.name = "mcp__ask-user"
                   \/ (b.name = "Read" /\ b.input = "/etc/passwd")}

InitSend ==
  /\ sess = [s \in Sessions |-> NoSession]
  /\ reg = {}
  /\ file = [version |-> 1, sessions |-> {}]
  /\ now = StartTime
  /\ hd = [h \in Handlers |-> IdleH]
  /\ stopFor = [s \in Sessions |-> NoStop]
  /\ intFor = [s \in Sessions |-> {}]
  /\ killed = {}
  /\ env = NoEnv
  /\ calls = <<>>
  /\ cfg = [slots |-> {1}, chats |-> {1}]
  /\ \E requested \in BOOLEAN, t \in {0, StartTime - 1},
        e \in {NoError, <<"Claude Code process exited with code 1">>} :
       stream = [NoStream EXCEPT !.pc = "entry", !.stopRequested = requested,
                                 !.lastActivity = t, !.lastError = e,
                                 !.lastErrorTime = IF e = NoError THEN 0 ELSE StartTime - 1]

\* the check of stopRequested at the entry, and the start of the query
Enter ==
  /\ stream.pc = "entry"
  /\ stream' = IF stream.stopRequested
                 THEN [stream EXCEPT !.stopRequested = FALSE, !.pc = "raised",
                                     !.err = <<"Query cancelled">>]
                 ELSE [stream EXCEPT !.abortController = 1, !.isQueryRunning = TRUE,
                                     !.stopRequested = FALSE, !.queryStarted = now,
                                     !.currentTool = "", !.pc = "pull",
                                     !.awaiting = TRUE]
  /\ StreamFrame

\* time passes while the call is suspended
TickSend ==
  /\ stream.pc \in {"pull", "blocks", "throw", "done"}
  /\ stream.awaiting
  /\ now < MaxTime + SESSION_TIMEOUT_MS
  /\ now' = now + 1
  /\ UNCHANGED <<sess, reg, file, hd, stopFor, intFor, calls, cfg, stream, killed, env>>

NextSend ==
  \/ Enter
  \/ TickSend
  \/ AssistantEvent
  \/ ResultEvent
  \/ \E b \in SendBlocks, answers \in [1..POLL_ATTEMPTS -> BOOLEAN], elapsed \in BOOLEAN :
       Block(b, answers, elapsed)
  \/ Throw
  \/ EndOfContent
  \/ StreamEnds
  \/ \E e \in BackendErrors : StreamThrows(e)
  \/ StopDuringStream
  \/ AfterLoop
  \/ Done

SpecSend == InitSend /\ [][NextSend]_vars

\* ------------------------------------------------- the thinking budget
\* getThinkingLevel applied to the messages of up to MaxMessageLen
\* characters.
Messages == UNION {[1..n -> Chars] : n \in 0..MaxMessageLen}

InitThink ==
  /\ sess = [s \in Sessions |-> NoSession]
  /\ reg = {}
  /\ file = [version |-> 1, sessions |-> {}]
  /\ now = StartTime
  /\ hd = [h \in Handlers |-> IdleH]
  /\ stopFor = [s \in Sessions |-> NoStop]
  /\ intFor = [s \in Sessions |-> {}]
  /\ killed = {}
  /\ env = NoEnv
  /\ \E m \in Messages : calls = <<[op |-> "message", message |-> m]>>
  /\ cfg = [slots |-> {1}, chats |-> {1}]
  /\ stream = NoStream

\* const thinkingTokens = getThinkingLevel(message)
ThinkingLevel ==
  /\ calls[1].op = "message"
  /\ calls' = <<[op |-> "thinking", message |-> calls[1].message,
                 thinkingTokens |-> getThinkingLevel(calls[1].message)]>>
  /\ UNCHANGED <<sess, reg, file, now, hd, stopFor, intFor, cfg, stream, killed, env>>

NextThink == ThinkingLevel

SpecThink == InitThink /\ [][NextThink]_vars

\* toData and fromData applied to the sessions the program can hold: any
\* chat and thread, a title as the handlers give it, a session id or none,
\* a completed send or none, and any run state.
SessionStates ==
  {r \in [chatId : Chats, threadAnchorId : Sessions,
          title : {"Untitled", "msg", "[Voice message]"},
          createdAt : StartTime..(MaxTime + SESSION_TIMEOUT_MS),
          sessionId : {0, BackendSessionId},
          lastActivity : {0} \cup (StartTime..(MaxTime + SESSION_TIMEOUT_MS)),
          isQueryRunning : BOOLEAN, abortController : {0} \cup Handlers,
          stopRequested : BOOLEAN, isProcessing : BOOLEAN,
          wasInterruptedByNewMessage : BOOLEAN] :
     /\ r.isQueryRunning <=> r.abortController # 0
     /\ r.lastActivity # 0 => r.lastActivity >= r.createdAt}

InitData ==
  /\ \E r \in SessionStates : sess = [s \in Sessions |-> IF s = 1 THEN r ELSE NoSession]
  /\ reg = {1}
  /\ file = [version |-> 1, sessions |-> {}]
  /\ now \in StartTime..(MaxTime + SESSION_TIMEOUT_MS)
  /\ now >= sess[1].createdAt /\ now >= sess[1].lastActivity
  /\ hd = [h \in Handlers |-> IdleH]
  /\ stopFor = [s \in Sessions |-> NoStop]
  /\ intFor = [s \in Sessions |-> {}]
  /\ killed = {}
  /\ env = NoEnv
  /\ calls = <<>>
  /\ cfg = [slots |-> {1}, chats |-> Chats]
  /\ stream = NoStream

\* toData() of the session, and fromData() of the record some time later
RoundTrip(t) ==
  /\ calls = <<>>
  /\ t >= now
  /\ calls' = <<[op |-> "roundtrip", before |-> sess[1],
                 data |-> toData(sess[1], now),
                 after |-> fromData(toData(sess[1], now), t)]>>
  /\ UNCHANGED <<sess, reg, file, now, hd, stopFor, intFor, cfg, stream, killed, env>>

NextData == \E t \in StartTime..(MaxTime + SESSION_TIMEOUT_MS) : RoundTrip(t)

SpecData == InitData /\ [][NextData]_vars


\* the calls of the last step with operation name op
CallsOf(op) == {i \in DOMAIN calls : calls[i].op = op}

\* ------------------------------------------------------------------ claims
\* C1: at most one backend call of a session is in flight at any time: no
\* send opens a backend stream on a session while an earlier stream of the
\* same session has not yet left its finally block.
C1_AtMostOneBackendCall ==
  \A s \in Sessions : Cardinality(StreamingOn(hd, s)) <= 1

\* C2: when stop() returned "pending" for a claimed send whose backend call
\* had not started, that send never opens the backend call.
C2_PendingStopPreventsOpen ==
  \A i \in CallsOf("open") : ~calls[i].afterPending

\* C3: a stop request aimed at one send never makes a later, independent
\* send of the same session fail its stream-entry check.
C3_NoCarryOver ==
  \A i \in CallsOf("reject") : ~calls[i].carried

\* C4: after stop() returned "stopped" for a streaming send, the send
\* handles no further backend event and raises no cancellation error.
C4_NoEventAfterStop ==
  /\ \A i \in CallsOf("event") : ~calls[i].afterStop
  /\ \A i \in CallsOf("raise") : calls[i].err = "abort" => ~calls[i].afterStop

\* C5: stop() returns "stopped" exactly when a backend call of the session
\* is active, "pending" exactly when the session is claimed and no backend
\* call is active, and false otherwise, and then changes no field.
C5_StopResult ==
  \A i \in CallsOf("stop") :
    /\ calls[i].ret = "stopped" <=> calls[i].streaming
    /\ calls[i].ret = "pending" <=> (~calls[i].streaming /\ calls[i].claimed)
    /\ calls[i].ret = "false" => calls[i].same

\* C6: consumeInterruptFlag returns the latched flag and clears it, so that
\* a second call returns false; when it returns true, stopRequested is
\* false afterwards.
C6_ConsumeInterruptFlag ==
  \A i \in CallsOf("consume") :
    /\ calls[i].ret = calls[i].before.wasInterruptedByNewMessage
    /\ ~calls[i].after.wasInterruptedByNewMessage
    /\ ~consumeInterruptFlag(calls[i].after).ret
    /\ calls[i].ret => ~calls[i].after.stopRequested

C6_Witness ==
  \E i \in CallsOf("consume") : calls[i].ret /\ calls[i].before.stopRequested

\* C7: the send of a message with the interrupt prefix is never rejected
\* at the stream-entry check.
C7_InterruptMessageNotRejected ==
  \A i \in CallsOf("reject") : ~calls[i].interrupt

\* C8: the interrupt flag never outlives the handlers of the sends its stop
\* interrupted; a send cancelled by /stop produces the stopped notice, and
\* a cancelled send ends without the notice only when an interrupting
\* message cancelled it.
C8_FlagNeverOutlives ==
  \A s \in Sessions : sess[s].wasInterruptedByNewMessage => intFor[s] # {}

C8_NoticeIffExplicit ==
  \A i \in CallsOf("cancelled") :
    /\ calls[i].cause = "explicit" => calls[i].notice
    /\ ~calls[i].notice => calls[i].cause = "message"

C8_InterruptFlagConsumed == C8_FlagNeverOutlives /\ C8_NoticeIffExplicit

\* C9: neither the eviction of getOrCreateSession nor
\* cleanupInactiveSessions removes a session that a handler has claimed or
\* that is streaming from the backend.
C9_RemovalOnlyIdle ==
  /\ \A i \in CallsOf("create") : ~calls[i].busy
  /\ \A i \in CallsOf("cleanup") : ~calls[i].busy


\* C10: getOrCreateSession on an absent key registers and returns a new
\* session; when the running sessions of the chat have reached the ceiling
\* it first removes exactly one session, the idle session of the chat with
\* the oldest lastActivity, if there is one; otherwise it removes nothing;
\* it never removes a session of another chat.
C10_Step ==
  \A i \in {j \in DOMAIN calls' : calls'[j].op = "create"} :
    LET c == calls'[i]
        running == {s \in reg : sess[s].chatId = c.chat /\ isRunning(sess[s])}
        idle == {s \in reg : sess[s].chatId = c.chat /\ ~isRunning(sess[s])}
        removed == reg \ reg'
    IN /\ reg' \ reg = {c.s}
       /\ sess[c.s] = NoSession
       /\ sess'[c.s].chatId = c.chat
       /\ hd'[c.h].s = c.s
       /\ IF Cardinality(running) >= MAX_CONCURRENT_SESSIONS /\ idle # {}
            THEN \E v \in idle :
                   /\ removed = {v}
                   /\ \A x \in idle : activityTime(sess[v]) <= activityTime(sess[x])
            ELSE removed = {}
       /\ \A s \in removed : sess[s].chatId = c.chat

C10_GetOrCreateEvicts == [][C10_Step]_vars

C10_Witness ==
  \E i \in CallsOf("create") :
    /\ calls[i].victim # 0
    /\ \E x \in calls[i].idle \ {calls[i].victim} :
         x \in reg /\ activityTime(sess[x]) > calls[i].victimTime


\* C16: toData followed by fromData reproduces sessionId, chatId,
\* threadAnchorId, title, createdAt and lastActivity, and the reconstructed
\* session is idle whatever the run state of the serialized one was.
C16_RoundTrip ==
  \A i \in CallsOf("roundtrip") :
    LET b == calls[i].before
        a == calls[i].after
    IN /\ a.sessionId = b.sessionId
       /\ a.chatId = b.chatId
       /\ a.threadAnchorId = b.threadAnchorId
       /\ a.title = b.title
       /\ a.createdAt = b.createdAt
       /\ a.lastActivity = b.lastActivity
       /\ ~a.isProcessing /\ ~a.isQueryRunning /\ ~a.stopRequested
       /\ ~a.wasInterruptedByNewMessage /\ a.abortController = 0


\* C17: a sessions file with an unknown version tag is treated as empty by
\* every operation that reads it: loadSessions registers nothing,
\* getPersistedSessions returns nothing, resumeSession reconstructs nothing.
C17_UnknownVersionIsEmpty ==
  /\ \A i \in CallsOf("load") : calls[i].version # 1 => calls[i].loaded = {}
  /\ \A i \in CallsOf("persisted") : calls[i].version # 1 => calls[i].records = {}
  /\ \A i \in CallsOf("resume") : calls[i].version # 1 => ~calls[i].made

\* the (chat, thread, session id) triples of the records of the file; a
\* file of an unknown version holds none
PersistedIds ==
  IF file.version # 1 THEN {}
  ELSE {<<d.chat_id, d.thread_anchor_id, d.session_id>> : d \in file.sessions}

\* the triples of the registered sessions that have a session id
RegisteredIds ==
  {<<sess[s].chatId, sess[s].threadAnchorId, sess[s].sessionId>> :
     s \in {x \in reg : sess[x].sessionId # 0}}

\* C18: whenever no handler is in flight, the records of the file are those
\* of the registered sessions that have a session id, each with the current
\* session id.
C18_FileMatchesRegistry ==
  (\A h \in Handlers : hd[h].pc = "idle") => PersistedIds = RegisteredIds


\* C19: every saveSessions writes a version-1 snapshot with exactly one
\* record for each registered session that has a session id and no record
\* for a session without one; no record has an empty session id.
C19_Step ==
  (\E i \in DOMAIN calls' : calls'[i].op \in {"create", "cleanup", "clear", "save"}) =>
    /\ file'.version = 1
    /\ \A d \in file'.sessions :
         /\ d.session_id # EmptyString
         /\ \E s \in reg' : /\ sess'[s].chatId = d.chat_id
                            /\ sess'[s].threadAnchorId = d.thread_anchor_id
                            /\ sess'[s].sessionId = d.session_id
    /\ \A s \in reg' :
         Cardinality({d \in file'.sessions :
                        /\ d.chat_id = sess'[s].chatId
                        /\ d.thread_anchor_id = sess'[s].threadAnchorId})
           = IF sess'[s].sessionId # 0 THEN 1 ELSE 0

C19_SaveWritesSnapshot == [][C19_Step]_vars

C19_Witness ==
  /\ CallsOf("create") # {}
  /\ Cardinality(file.sessions) = 1
  /\ \E s1, s2 \in reg : sess[s1].sessionId # 0 /\ sess[s2].sessionId = 0


\* C15: handleText calls sendMessageStreaming at most twice for a message;
\* the second call follows a crash of the first only, and opens the backend
\* with no resume token; a failure of the second call is reported with no
\* further call.
C15_AtMostTwice ==
  \A h \in Handlers : hd[h].attempt <= 1

C15_RetryAfterCrashOnly ==
  \A i \in CallsOf("open") \cup CallsOf("reject") :
    calls[i].attempt > 0 => calls[i].after = "crash"

C15_RetryWithoutToken ==
  \A i \in CallsOf("open") : calls[i].attempt > 0 => calls[i].resume = 0

C15_RetryOnce ==
  C15_AtMostTwice /\ C15_RetryAfterCrashOnly /\ C15_RetryWithoutToken


\* C20: sessionId holds only an id the backend issued, or one read from a
\* persisted record: an unset sessionId is set from the first event of a
\* send that carries an id, at most once in a send; a set sessionId is
\* never replaced by another id; only kill() resets it.
C20_Step ==
  \A s \in Sessions :
    LET old == sess[s].sessionId
        new == sess'[s].sessionId
        ev == {i \in DOMAIN calls' : calls'[i].op = "event" /\ calls'[i].s = s}
        restarted == \E i \in DOMAIN calls' : calls'[i].op = "load"
    IN /\ (old = 0 /\ new # 0) =>
            \/ \E i \in ev : calls'[i].id = new
            \/ restarted /\ \E d \in file.sessions : d.session_id = new
       /\ (old # 0 /\ new # old /\ ~restarted) =>
            /\ new = 0
            /\ \/ \E i \in DOMAIN calls' : calls'[i].op = "kill" /\ calls'[i].s = s
               \/ sess'[s] = NoSession
       /\ \A i \in ev : (old = 0 /\ calls'[i].id # 0) => new = calls'[i].id
       /\ \A i \in ev : ~calls'[i].again

C20_SessionIdLatch == [][C20_Step]_vars


\* the events of one type the status callback has received
SinkOf(type) == {i \in DOMAIN stream.sink : stream.sink[i].type = type}

RECURSIVE SumLen(_)
SumLen(S) ==
  IF S = {} THEN 0
  ELSE LET i == CHOOSE x \in S : TRUE IN stream.sink[i].len + SumLen(S \ {i})

\* C11: when a send returns, the text of every non-empty segment buffer has
\* been delivered in exactly one segment_end event, and no segment_end
\* event has empty text.
C11_SegmentsDelivered ==
  /\ \A i \in SinkOf("segment_end") : stream.sink[i].len > 0
  /\ stream.pc = "returned" =>
       SumLen(SinkOf("segment_end")) = length(join(stream.responseParts))

\* C12: the segment_end events of a send carry the ids 0, 1, 2, ... in the
\* order of emission, and every text event carries the id of the next
\* segment_end event, so the ids start at 0 and never decrease.
C12_SegmentIds ==
  \A i \in SinkOf("segment_end") \cup SinkOf("text") :
    stream.sink[i].segmentId =
      Cardinality({j \in SinkOf("segment_end") : j < i})

C12_Witness ==
  /\ stream.pc = "returned"
  /\ \E i \in SinkOf("text"), j, k \in SinkOf("segment_end") :
       /\ j < i /\ i < k
       /\ stream.sink[j].segmentId = 0
       /\ stream.sink[i].segmentId = 1
       /\ stream.sink[k].segmentId = 1

\* the tool events that announce a rejected invocation
Rejections ==
  {i \in SinkOf("tool") : stream.sink[i].text \in {"BLOCKED", "Access denied"}}

\* C13: a rejected tool invocation delivers one tool event describing the
\* block and then the send raises: the step delivers nothing else, flushes
\* no segment and leaves currentTool and lastTool alone, and afterwards no
\* event is delivered and no content processed.
C13_Step ==
  /\ Len(stream'.sink) > Len(stream.sink) /\ Len(stream'.sink) \in
       {i \in DOMAIN stream'.sink : stream'.sink[i].type = "tool"
                                    /\ stream'.sink[i].text \in {"BLOCKED", "Access denied"}}
     => /\ Len(stream'.sink) = Len(stream.sink) + 1
        /\ stream'.currentTool = stream.currentTool
        /\ stream'.lastTool = stream.lastTool
        /\ stream'.currentSegmentText = stream.currentSegmentText
        /\ stream'.pc = "throw"
  /\ Rejections # {} =>
        /\ stream'.sink = stream.sink
        /\ stream'.blocks = stream.blocks
        /\ stream'.lastTool = stream.lastTool
        /\ stream'.pc \in {"throw", "raised"}

C13_RejectionAborts == [][C13_Step]_vars

\* C14: a send that has rejected a tool invocation raises: its error is
\* never swallowed as a cancellation, whatever the command or path, and
\* whether or not a stop was requested or a result received.
C14_RejectionRaises ==
  Rejections # {} => stream.pc \in {"throw", "raised"}


\* C21: cleanupInactiveSessions removes exactly the sessions that are not
\* running and whose last activity (the epoch when there is none) lies
\* more than the timeout back, and returns their number; the running
\* sessions and the idle sessions with more recent activity stay
\* registered, and the file holds the records of the sessions that stay.
C21_Step ==
  \A i \in {j \in DOMAIN calls' : calls'[j].op = "cleanup"} :
    LET old == {s \in reg : /\ ~(sess[s].isQueryRunning \/ sess[s].isProcessing)
                            /\ now - sess[s].lastActivity > SESSION_TIMEOUT_MS}
    IN /\ reg \ reg' = old
       /\ reg' = reg \ old
       /\ calls'[i].cleaned = Cardinality(old)
       /\ \A s \in reg' : sess'[s] = sess[s]
       /\ file' = [version |-> 1,
                   sessions |-> {toData(sess[s], now) :
                                   s \in {x \in reg' : sess[x].sessionId # 0}}]

C21_CleanupRemovesAgedIdle == [][C21_Step]_vars

C21_Witness ==
  \E i \in CallsOf("cleanup") :
    /\ \E t \in calls[i].times : t # 0
    /\ \E s \in reg : isRunning(sess[s])
    /\ \E s \in reg : ~isRunning(sess[s]) /\ sess[s].lastActivity # 0
    /\ Cardinality(file.sessions) >= 1


\* C22: kill() clears sessionId and lastActivity and changes no other
\* field of the session and not the registry; the send that begins next on
\* the session opens the backend call without a resume token and with the
\* date/time header, as the first send of a session does.
C22_Step ==
  /\ \A i \in {j \in DOMAIN calls' : calls'[j].op = "kill"} :
       LET s == calls'[i].s
       IN /\ sess'[s] = [sess[s] EXCEPT !.sessionId = 0, !.lastActivity = 0]
          /\ reg' = reg
          /\ \A x \in Sessions \ {s} : sess'[x] = sess[x]
  /\ \A i \in {j \in DOMAIN calls' : calls'[j].op = "open"} :
       calls'[i].afterKill => calls'[i].resume = 0 /\ calls'[i].header

C22_KillStartsFresh == [][C22_Step]_vars


\* C23: resumeSession returns the registered session of the key and changes
\* nothing when there is one; otherwise, when the file holds a record of
\* the key with a session id, it registers and returns an idle session
\* with the session id of the record and opens no backend call; otherwise
\* it returns null and the registry stays as it is.
C23_Step ==
  \A i \in {j \in DOMAIN calls' : calls'[j].op = "resume"} :
    LET c == calls'[i].chat
        a == calls'[i].s
        ret == calls'[i].ret
        inMemory == {s \in reg : sess[s].chatId = c /\ sess[s].threadAnchorId = a}
        recs == {d \in file.sessions : /\ d.chat_id = c /\ d.thread_anchor_id = a
                                       /\ d.session_id # EmptyString}
    IN /\ file' = file
       /\ \A j \in DOMAIN calls' : calls'[j].op # "open"
       /\ \A s \in reg : s \in reg' /\ sess'[s] = sess[s]
       /\ IF inMemory # {}
            THEN ret \in inMemory /\ reg' = reg
          ELSE IF recs # {}
            THEN /\ ret \notin reg /\ reg' = reg \cup {ret}
                 /\ sess'[ret].chatId = c /\ sess'[ret].threadAnchorId = a
                 /\ sess'[ret].sessionId \in {d.session_id : d \in recs}
                 /\ ~isRunning(sess'[ret]) /\ sess'[ret].abortController = 0
                 /\ ~sess'[ret].stopRequested
                 /\ ~sess'[ret].wasInterruptedByNewMessage
          ELSE ret = 0 /\ reg' = reg

C23_ResumeSession == [][C23_Step]_vars

C23_Witness ==
  \E i \in CallsOf("resume") :
    /\ calls[i].made
    /\ calls[i].ret \in reg
    /\ sess[calls[i].ret].sessionId = BackendSessionId
    /\ ~isRunning(sess[calls[i].ret])


\* C24: getOrCreateSession on a registered key returns the registered
\* session and changes nothing: the registry and the file stay as they
\* are, no session is evicted, and the title and the other fields of the
\* session are those it had, also when the running sessions of the chat
\* have reached the ceiling.
C24_Step ==
  \A i \in {j \in DOMAIN calls' : calls'[j].op = "get"} :
    LET s == calls'[i].s
    IN /\ s \in reg /\ hd'[calls'[i].h].s = s
       /\ calls'[i].same
       /\ reg' = reg
       /\ file' = file
       /\ \A j \in DOMAIN calls' : calls'[j].op # "create"
       /\ sess'[s].title = sess[s].title
       /\ sess'[s].createdAt = sess[s].createdAt
       /\ sess'[s].chatId = sess[s].chatId
       /\ sess'[s].threadAnchorId = sess[s].threadAnchorId
       /\ sess'[s].sessionId = sess[s].sessionId
       /\ sess'[s].lastActivity = sess[s].lastActivity
       /\ \A x \in reg \ {s} : sess'[x] = sess[x]

C24_GetOrCreateReturnsExisting == [][C24_Step]_vars

C24_Witness ==
  \E i \in CallsOf("get") :
    /\ calls[i].running >= MAX_CONCURRENT_SESSIONS
    /\ calls[i].title # sess[calls[i].s].title
    /\ Cardinality(reg) = 2


\* C25: clearSessionsForChat removes every session of the chat from the
\* registry, returns their number, leaves the sessions of the other chats
\* registered and as they are, and the file holds the records of the
\* sessions that stay; removeSession on a key that is not registered
\* returns false and changes neither the registry nor the file.
C25_Step ==
  /\ \A i \in {j \in DOMAIN calls' : calls'[j].op = "clear"} :
       LET c == calls'[i].chat
           mine == {s \in reg : sess[s].chatId = c}
       IN /\ reg' = reg \ mine
          /\ calls'[i].count = Cardinality(mine)
          /\ \A s \in reg' : sess'[s] = sess[s]
          /\ file' = [version |-> 1,
                      sessions |-> {toData(sess[s], now) :
                                      s \in {x \in reg' : sess[x].sessionId # 0}}]
  /\ \A i \in {j \in DOMAIN calls' : calls'[j].op = "remove"} :
       LET c == calls'[i].chat
           a == calls'[i].anchor
           hit == {s \in reg : sess[s].chatId = c /\ sess[s].threadAnchorId = a}
       IN hit = {} => /\ ~calls'[i].ret
                      /\ reg' = reg
                      /\ file' = file
                      /\ \A s \in reg : sess'[s] = sess[s]

Hits(m, k) ==
  {i \in 1..Len(m) :
     /\ i + Len(k) - 1 <= Len(m)
     /\ \A j \in 1..Len(k) :
          \/ m[i + j - 1] = k[j]
          \/ (m[i + j - 1] = "A" /\ k[j] = "a")
          \/ (m[i + j - 1] = "B" /\ k[j] = "b")}

\* C26: the thinking budget of a message is the deep budget when the
\* lower-cased message contains a deep trigger, also when it contains a
\* normal trigger as well; otherwise the moderate budget when it contains
\* a normal trigger; otherwise 0.
C26_ThinkingLevel ==
  \A i \in CallsOf("thinking") :
    LET m == calls[i].message
        deep == \E k \in THINKING_DEEP_KEYWORDS : Hits(m, k) # {}
        normal == \E k \in THINKING_KEYWORDS : Hits(m, k) # {}
    IN calls[i].thinkingTokens =
         IF deep THEN 50000 ELSE IF normal THEN 10000 ELSE 0

C26_Witness ==
  \E i \in CallsOf("thinking") :
    /\ calls[i].thinkingTokens = 50000
    /\ calls[i].message = <<"A", "b", "B">>


\* C27: while a handler holds a processing claim it has not released on a
\* session, the session reports isRunning and stop() does not return
\* false; in particular the release of one of two claims on a session does
\* not end the other.
C27_ClaimKeepsRunning ==
  /\ \A s \in Sessions : ClaimedOn(hd, s) # {} => isRunning(sess[s])
  /\ \A i \in CallsOf("stop") : calls[i].claimed => calls[i].ret # "false"


\* C28: once sendMessageStreaming has left its try statement on any path
\* (end of the stream, stop check, ask-user break, swallowed error, raised
\* error), isQueryRunning is false and abortController, queryStarted and
\* currentTool are null; an abort controller is present only while
\* isQueryRunning is true.
C28_ExitClearsRunState ==
  /\ stream.pc \in {"post", "done", "returned", "raised"} =>
       /\ ~stream.isQueryRunning
       /\ stream.abortController = 0
       /\ stream.queryStarted = 0
       /\ stream.currentTool = ""
  /\ stream.abortController # 0 => stream.isQueryRunning

C28_Witness ==
  /\ stream.pc = "raised"
  /\ stream.lastTool = "Read"
  /\ stream.stopRequested
  /\ stream.abortController = 0


\* C29: an error thrown by the backend stream is swallowed by the send
\* exactly when it is a cancellation error and the send had received its
\* result event or had been the target of a stop request; every other
\* error is rethrown to the handler.
C29_RaisedUnlessCancelled ==
  \A i \in CallsOf("raise") :
    ~(calls[i].err = "abort" /\ (calls[i].completed \/ calls[i].afterStop))

C29_SwallowedOnlyCancelled ==
  \A i \in CallsOf("swallow") :
    calls[i].err = "abort" /\ (calls[i].completed \/ calls[i].afterStop)

C29_SwallowedExactlyWhenCancelled ==
  C29_RaisedUnlessCancelled /\ C29_SwallowedOnlyCancelled


\* the positions of the done events the status callback has received
DoneEvents == {i \in DOMAIN stream.sink : stream.sink[i].type = "done"}

\* C30: a send that has returned has delivered exactly one done event, and
\* it is the last event the status callback received (after the last
\* segment_end, if there is one); a send that has thrown has delivered no
\* done event.
C30_DoneOnceAndLast ==
  /\ stream.pc = "returned" => DoneEvents = {Len(stream.sink)} /\ stream.sink # <<>>
  /\ stream.pc = "raised" => DoneEvents = {}
  /\ stream.pc \notin {"returned", "idle"} => DoneEvents = {}

C30_Witness ==
  /\ stream.pc = "returned"
  /\ Len(stream.sink) >= 3
  /\ stream.sink[Len(stream.sink) - 1].type = "segment_end"
  /\ stream.sink[Len(stream.sink)].type = "done"


\* the texts of the segment_end events up to event n, concatenated in the
\* order of their delivery
RECURSIVE SegmentsText(_)
SegmentsText(n) ==
  IF n = 0 THEN <<>>
  ELSE IF stream.sink[n].type = "segment_end"
    THEN SegmentsText(n - 1) \o stream.sink[n].text
    ELSE SegmentsText(n - 1)

\* C31: a send that returns without waiting for a user selection returns
\* the texts of all text blocks it consumed, concatenated in their order
\* across the segments of the send, or the fallback string when that text
\* is empty; a send that ends waiting for a user selection returns the
\* waiting sentinel.
C31_ReturnValue ==
  stream.pc = "returned" =>
    IF stream.askUserTriggered
      THEN stream.ret = WaitingForUser
      ELSE /\ SegmentsText(Len(stream.sink)) = join(stream.responseParts)
           /\ stream.ret = IF SegmentsText(Len(stream.sink)) = <<>>
                             THEN NoResponse
                             ELSE SegmentsText(Len(stream.sink))

C31_Witness ==
  /\ stream.pc = "returned"
  /\ stream.ret = <<"b", "a">>
  /\ Cardinality(SinkOf("segment_end")) = 2

\* text p is an initial part of text q
Extends(q, p) == Len(p) <= Len(q) /\ SubSeq(q, 1, Len(p)) = p

\* C32: a text event carries the whole text buffered for the open segment:
\* among the text events of one segment id each payload extends the
\* payload of the earlier ones, and the payload of the segment_end event
\* of that id extends the payload of every text event of the segment.
C32_TextEventsCumulative ==
  /\ \A i, j \in SinkOf("text") :
       (i < j /\ stream.sink[i].segmentId = stream.sink[j].segmentId) =>
         Extends(stream.sink[j].text, stream.sink[i].text)
  /\ \A i \in SinkOf("text"), j \in SinkOf("segment_end") :
       stream.sink[i].segmentId = stream.sink[j].segmentId =>
         i < j /\ Extends(stream.sink[j].text, stream.sink[i].text)

C32_Witness ==
  \E i, j \in SinkOf("text"), k \in SinkOf("segment_end") :
    /\ i < j /\ j < k
    /\ stream.sink[i].segmentId = stream.sink[k].segmentId
    /\ stream.sink[j].segmentId = stream.sink[k].segmentId
    /\ stream.sink[i].text = <<"a", "b">>
    /\ stream.sink[j].text = <<"a", "b", "b">>
    /\ stream.sink[k].text = <<"a", "b", "b">>


\* C33 (polling): an ask-user block gets no tool event; its polling loop
\* asks at most three times and leaves at the first positive answer.
C33_Polling ==
  /\ \A i \in SinkOf("tool") : stream.sink[i].text # "mcp__ask-user"
  /\ Len(stream.asked) <= 3
  /\ \A n \in 1..(Len(stream.asked) - 1) : ~stream.asked[n]
  /\ (stream.asked # <<>> /\ Len(stream.asked) < 3) => stream.asked[Len(stream.asked)]
  /\ (\E n \in DOMAIN stream.asked : stream.asked[n]) => stream.askUserTriggered

\* C33 (after a positive poll): the send pulls no further backend event,
\* and it ends by delivering done and returning the waiting sentinel.
C33_PositiveEndsSend ==
  stream.askUserTriggered =>
    /\ stream.pc # "pull"
    /\ stream.pc # "raised"
    /\ stream.pc = "returned" =>
         /\ stream.ret = WaitingForUser
         /\ stream.sink[Len(stream.sink)].type = "done"

\* C33: for an ask-user tool block no tool event is delivered, the pending
\* requests are polled at most three times and not after a positive
\* answer; after a positive answer the send consumes no further backend
\* event, delivers done and returns the waiting sentinel; after three
\* negative answers the send goes on and does not return the sentinel.
C33_AskUser ==
  /\ C33_Polling
  /\ C33_PositiveEndsSend
  /\ (stream.pc = "returned" /\ ~stream.askUserTriggered) => stream.ret # WaitingForUser


\* the step leaves the try statement without an error to rethrow
Completes == stream.pc = "post" /\ stream'.pc # "post"

\* C34: a send that returns normally sets lastActivity to the time of its
\* completion and clears lastError and lastErrorTime; no other step of a
\* send, the rejection at its entry and a rethrown error included, changes
\* lastActivity.
C34_Step ==
  /\ Completes => /\ stream'.lastActivity = now
                  /\ stream'.lastError = NoError
                  /\ stream'.lastErrorTime = 0
  /\ ~Completes => stream'.lastActivity = stream.lastActivity
  /\ stream'.pc = "returned" => stream'.lastError = NoError /\ stream'.lastActivity # 0

C34_Completion == [][C34_Step]_vars

C34_Witness ==
  /\ stream.pc = "returned"
  /\ stream.lastActivity = now
  /\ now > StartTime
  /\ stream.sink # <<>>


\* C35: the handler shows the user a message about a backend crash only
\* when the retry has failed as well: the crash of the first attempt is
\* followed by the retry without a reply.
C35_SilentRetry ==
  \A i \in CallsOf("reply") :
    (calls[i].err = "crash" /\ hd[calls[i].h].kind = "text") => calls[i].attempt = MAX_RETRIES


\* C36: every processing claim is released on every exit path of its
\* handler: a session on which no claiming handler is at work is not
\* marked as processing.
C36_ClaimReleased ==
  \A s \in Sessions : ClaimedOn(hd, s) = {} => ~sess[s].isProcessing


\* C37: the chat and thread identifiers that the ask-user side channel
\* takes from the process environment for a tool call of a send are those
\* of the session of that send, whatever sends have started on other
\* sessions in the meantime.
C37_EnvOfOwnSession ==
  \A i \in CallsOf("askuser") :
    /\ calls[i].chat = sess[calls[i].s].chatId
    /\ calls[i].anchor = sess[calls[i].s].threadAnchorId


\* C38: a session without lastActivity counts as the least recently
\* active one: when getOrCreateSession evicts and an idle session of the
\* chat has no lastActivity, the evicted session has none; and
\* cleanupInactiveSessions removes every idle session without
\* lastActivity, whenever it was created.
C38_Step ==
  /\ \A i \in {j \in DOMAIN calls' : calls'[j].op = "create"} :
       LET c == calls'[i]
           idle == {s \in reg : sess[s].chatId = c.chat /\ ~isRunning(sess[s])}
           never == {s \in idle : sess[s].lastActivity = 0}
       IN (reg \ reg' # {} /\ never # {}) => reg \ reg' \subseteq never
  /\ \A i \in {j \in DOMAIN calls' : calls'[j].op = "cleanup"} :
       \A s \in reg : (~isRunning(sess[s]) /\ sess[s].lastActivity = 0) => s \notin reg'

C38_UnsetIsOldest == [][C38_Step]_vars

\* an eviction chose the session without lastActivity among idle sessions
\* one of which has completed a send
C38_Witness ==
  \E i \in CallsOf("create") :
    /\ calls[i].victim # 0
    /\ calls[i].victimTime = 0
    /\ \E x \in calls[i].idle \ {calls[i].victim} : x \in reg /\ sess[x].lastActivity # 0


\* C39: the abort controller stored on a session is that of every backend
\* call the session has in flight: no send that is streaming has had its
\* controller replaced or discarded by another send of the session.
C39_ControllerOfCallInFlight ==
  \A s \in Sessions : \A h \in StreamingOn(hd, s) : sess[s].abortController = h

====
